---- MODULE Spec2Model ----
(***************************************************************************)
(* A model of the Hielements interpreter (hielements-core/interpreter.rs)  *)
(* and of the `run` command of the command line driver (hielements-cli).   *)
(*                                                                         *)
(* Strings on which the code does substring work (element names, scope     *)
(* names, the dotted element path, the keys of the scope map, the filter)  *)
(* are sequences of characters, so that `contains`, `ends_with` and        *)
(* `format!("{}.{}")` are computed and not assumed.                        *)
(***************************************************************************)
EXTENDS Integers, Sequences, FiniteSets, TLC

VARIABLES
    program,                \* the parsed Program: its top-level elements
    options,                \* RunOptions {filter, limit}
    pc,                     \* "start" | "running" | "returned" | "exited"
    exitCode,               \* the ExitCode of cmd_run (-1: not exited)
    validation,             \* what cmd_run learnt before running
    scopes,                 \* Interpreter.scopes: key -> Value
    diagnostics,            \* Interpreter.diagnostics (codes, append only)
    current_element_path,   \* Interpreter.current_element_path
    output,                 \* the CheckOutput under construction
    stack,                  \* call stack of run_element_with_options
    run,                    \* number of run_with_options invocations so far
    fresh,                  \* ghost: this invocation began on a new Interpreter
    history,                \* ghost: what happened in this invocation
    previous,               \* ghost: outcome of the previous invocation
    source,                 \* the text of a .hie file, as a sequence of lexemes
    lexer,                  \* the fields of the Lexer
    lexed,                  \* Lexer::tokenize: the tokens collected so far
    parser,                 \* the fields of the Parser
    parsed,                 \* Parser::parse: the declarations collected so far
    document,               \* ghost: the declarations the source was written from
    firstParse,             \* ghost: what parsing gave before the blocks were rewritten
    library,                \* the fields of an ExternalLibrary
    subprocess,             \* the child processes of the library, as the system sees them
    wire,                   \* ghost: the lines written to and read from the child
    call,                   \* the library operation in progress, and its result
    libraries,              \* Interpreter.libraries: the names registered
    validated               \* ghost: what the calls of Interpreter::validate returned

runVars == <<program, options, pc, exitCode, validation, scopes, diagnostics,
             current_element_path, output, stack, run, fresh, history, previous>>

\* the front end: Lexer and Parser
frontVars == <<source, lexer, lexed, parser, parsed, document, firstParse>>

\* the subprocess transport of an external library
transportVars == <<library, subprocess, wire, call>>

\* the library registry of the Interpreter, and its validate method
validateVars == <<libraries, validated>>

vars == <<runVars, frontVars, transportVars, validateVars>>

\* what a run of the interpreter leaves alone
outsideRun == <<frontVars, transportVars, validateVars>>

\* no file is being lexed or parsed
FrontEndIdle ==
    /\ source = <<>>
    /\ lexer = [phase |-> "idle"]
    /\ lexed = <<>>
    /\ parser = [phase |-> "idle"]
    /\ parsed = <<>>
    /\ document = <<>>
    /\ firstParse = [valid |-> FALSE]

\* no external library is in use
TransportIdle ==
    /\ library = [phase |-> "none"]
    /\ subprocess = [spawned |-> 0, running |-> FALSE]
    /\ wire = <<>>
    /\ call = [phase |-> "idle"]

(***************************************************************************)
(* Bounds of the model.                                                    *)
(***************************************************************************)
MaxLimit == 2       \* --limit ranges over 0..MaxLimit (and absent)
MaxRuns == 2        \* run_with_options is invoked at most MaxRuns times

(***************************************************************************)
(* Strings as sequences of characters.                                     *)
(***************************************************************************)
Dot == <<".">>

RECURSIVE Join(_, _)
\* Vec<String>::join(sep)
Join(parts, sep) ==
    IF parts = <<>> THEN <<>>
    ELSE IF Len(parts) = 1 THEN parts[1]
    ELSE parts[1] \o sep \o Join(Tail(parts), sep)

\* str::ends_with
EndsWith(s, suffix) ==
    /\ Len(suffix) <= Len(s)
    /\ SubSeq(s, Len(s) - Len(suffix) + 1, Len(s)) = suffix

\* str::starts_with
StartsWith(s, prefix) ==
    /\ Len(prefix) <= Len(s)
    /\ SubSeq(s, 1, Len(prefix)) = prefix

\* str::contains
Contains(s, pattern) ==
    \E i \in 1..(Len(s) + 1) :
        /\ i + Len(pattern) - 1 <= Len(s)
        /\ SubSeq(s, i, i + Len(pattern) - 1) = pattern

None == [some |-> FALSE]
Some(v) == [some |-> TRUE, v |-> v]

(***************************************************************************)
(* AST (ast.rs): expressions and elements.                                 *)
(***************************************************************************)
Identifier(name) == [k |-> "Identifier", name |-> name]
StringLit(value) == [k |-> "String", value |-> value]
NumberLit(int, frac) == [k |-> "Number", int |-> int, frac |-> frac]
BooleanLit(value) == [k |-> "Boolean", b |-> value]
MemberAccess(object, member) ==
    [k |-> "MemberAccess", object |-> object, member |-> member]
FunctionCall(function, arguments) ==
    [k |-> "FunctionCall", function |-> function, arguments |-> arguments]
ListExpr(elements) == [k |-> "List", elements |-> elements]

ScopeDeclaration(name, expression) == [name |-> name, expression |-> expression]
Element(name, body, children) ==
    [name |-> name, scopes |-> body.scopes, checks |-> body.checks,
     children |-> children]

(***************************************************************************)
(* Runtime values (stdlib/mod.rs).                                         *)
(***************************************************************************)
VString(s) == [tag |-> "String", s |-> s]
VInt(n) == [tag |-> "Int", n |-> n]
VFloat(n, f) == [tag |-> "Float", n |-> n, f |-> f]
VBool(b) == [tag |-> "Bool", b |-> b]
VList(items) == [tag |-> "List", items |-> items]
VScope(kind, descriptor, paths) ==
    [tag |-> "Scope", kind |-> kind, descriptor |-> descriptor,
     paths |-> paths, resolved |-> TRUE]

Pass == [r |-> "Pass"]
Fail(msg) == [r |-> "Fail", msg |-> msg]
Error(msg) == [r |-> "Error", msg |-> msg]

\* a message built by format!(text, arg)
Msg(text, arg) == [text |-> text, arg |-> arg]

\* Result<T, _> of an evaluation, with the library invocations it made
Ok(v, inv) == [ok |-> TRUE, val |-> v, inv |-> inv]
Err(code, msg, inv) == [ok |-> FALSE, code |-> code, msg |-> msg, inv |-> inv]
Invocation(op, lib, fn, args) == [op |-> op, lib |-> lib, fn |-> fn, args |-> args]

(***************************************************************************)
(* The workspace on disk and the built-in `files` library                  *)
(* (stdlib/files.rs).  Only the functions the programs below call are      *)
(* spelled out: every other name takes the `_` arm of the match.           *)
(***************************************************************************)
Workspace == ("src" :> <<"main.py">>) @@ ("doc" :> <<>>)

Files == <<"files">>
FolderSelector == <<"folder_selector">>
Exists == <<"exists">>

\* LibraryRegistry: the names a library is registered under
Registered == {Files}

\* Interpreter::new: the built-in libraries, and validate not called yet
NoValidation ==
    /\ libraries = Registered
    /\ validated = <<>>

\* FilesLibrary::folder_selector
folder_selector(path) ==
    IF path \in DOMAIN Workspace
    THEN VScope("Folder", path, [i \in 1..Len(Workspace[path]) |-> <<path, Workspace[path][i]>>])
    ELSE VScope("Folder", path, <<>>)

\* FilesLibrary::check_exists, ScopeKind::Folder
check_exists(scope, filename) ==
    IF /\ scope.descriptor \in DOMAIN Workspace
       /\ \E i \in 1..Len(Workspace[scope.descriptor]) : Workspace[scope.descriptor][i] = filename
    THEN Pass
    ELSE Fail(Msg("File does not exist in folder", <<filename, scope.descriptor>>))

\* <FilesLibrary as Library>::call
FilesCall(function, args) ==
    IF function = FolderSelector
    THEN IF Len(args) >= 1 /\ args[1].tag = "String"
         THEN Ok(folder_selector(args[1].s), <<>>)
         ELSE Err("E101", Msg("folder_selector requires a string path argument", <<>>), <<>>)
    ELSE Err("E199", Msg("Unknown function: files.", function), <<>>)

\* <FilesLibrary as Library>::check
FilesCheck(function, args) ==
    IF function = Exists
    THEN IF ~(Len(args) >= 1 /\ args[1].tag = "Scope")
         THEN Err("E110", Msg("exists requires a scope as first argument", <<>>), <<>>)
         ELSE IF ~(Len(args) >= 2 /\ args[2].tag = "String")
         THEN Err("E111", Msg("exists requires a filename as second argument", <<>>), <<>>)
         ELSE Ok(check_exists(args[1], args[2].s), <<>>)
    ELSE Err("E199", Msg("Unknown check function: files.", function), <<>>)

(***************************************************************************)
(* Interpreter: expression evaluation.                                     *)
(***************************************************************************)
RECURSIVE expression_to_string(_)
RECURSIVE StringsOf(_)
StringsOf(exprs) ==
    IF exprs = <<>> THEN <<>>
    ELSE <<expression_to_string(Head(exprs))>> \o StringsOf(Tail(exprs))

\* Interpreter::expression_to_string
expression_to_string(expr) ==
    CASE expr.k = "Identifier" -> expr.name
      [] expr.k = "String" -> <<"'", expr.value, "'">>
      [] expr.k = "Number" ->
            IF expr.frac = 0 THEN <<ToString(expr.int)>>
            ELSE <<ToString(expr.int), ".", ToString(expr.frac)>>
      [] expr.k = "Boolean" -> IF expr.b THEN <<"true">> ELSE <<"false">>
      [] expr.k = "MemberAccess" ->
            expression_to_string(expr.object) \o Dot \o expr.member
      [] expr.k = "FunctionCall" ->
            expression_to_string(expr.function) \o <<"(">>
                \o Join(StringsOf(expr.arguments), <<",", " ">>) \o <<")">>
      [] expr.k = "List" ->
            <<"[">> \o Join(StringsOf(expr.elements), <<",", " ">>) \o <<"]">>

\* Interpreter::get_library_function
get_library_function(expr) ==
    IF expr.k = "MemberAccess"
    THEN IF expr.object.k = "Identifier"
         THEN Ok(<<expr.object.name, expr.member>>, <<>>)
         ELSE Err("E205", Msg("Expected library.function", <<>>), <<>>)
    ELSE Err("E205", Msg("Expected library.function", <<>>), <<>>)

\* the scan compares the end of the key without the separating dot
SuffixMatchesNoDot(name, sc) ==
    {key \in DOMAIN sc : EndsWith(key, name)}

\* the keys a scan of the scope map for identifier `name` can stop at
SuffixMatches(name, sc) ==
    {key \in DOMAIN sc : EndsWith(key, Dot \o name) \/ key = name}

\* only the scopes of the current element are looked at
LookupIdentifierCurrentOnly(name, sc, cur) ==
    LET current_scope_key == cur \o Dot \o name IN
    IF current_scope_key \in DOMAIN sc
    THEN {Ok(sc[current_scope_key], <<>>)}
    ELSE {Err("E200", Msg("Undefined identifier: ", name), <<>>)}

\* Interpreter::evaluate_expression, Expression::Identifier.  The scan of the
\* HashMap visits the keys in an order the program does not control, so any
\* matching key may be the first.
LookupIdentifier(name, sc, cur) ==
    LET current_scope_key == cur \o Dot \o name IN
    IF current_scope_key \in DOMAIN sc
    THEN {Ok(sc[current_scope_key], <<>>)}
    ELSE IF SuffixMatches(name, sc) # {}
         THEN {Ok(sc[key], <<>>) : key \in SuffixMatches(name, sc)}
         ELSE {Err("E200", Msg("Undefined identifier: ", name), <<>>)}

\* a chain is looked up with a dot before its text
LookupMemberDotted(expr, sc) ==
    IF expr.object.k = "Identifier"
    THEN {Err("E201", Msg("Member access cannot be evaluated directly",
                          expr.object.name \o Dot \o expr.member), <<>>)}
    ELSE LET scope_name == expression_to_string(expr)
             found == {key \in DOMAIN sc : EndsWith(key, Dot \o scope_name)}
         IN  IF found # {}
             THEN {Ok(sc[key], <<>>) : key \in found}
             ELSE {Err("E202", Msg("Undefined reference: ", scope_name), <<>>)}

\* Interpreter::evaluate_expression, Expression::MemberAccess
LookupMember(expr, sc) ==
    IF expr.object.k = "Identifier"
    THEN {Err("E201", Msg("Member access cannot be evaluated directly",
                          expr.object.name \o Dot \o expr.member), <<>>)}
    ELSE LET scope_name == expression_to_string(expr)
             found == {key \in DOMAIN sc : EndsWith(key, scope_name)}
         IN  IF found # {}
             THEN {Ok(sc[key], <<>>) : key \in found}
             ELSE {Err("E202", Msg("Undefined reference: ", scope_name), <<>>)}

\* the arguments reach the library in reverse order
DispatchReversed(op, lib_name, func_name, args, inv) ==
    LET reversed == [i \in 1..Len(args) |-> args[Len(args) + 1 - i]]
        here == inv \o <<Invocation(op, lib_name, func_name, reversed)>>
    IN
    IF lib_name \in libraries
    THEN LET r == IF op = "call" THEN FilesCall(func_name, reversed)
                  ELSE FilesCheck(func_name, reversed)
         IN  IF r.ok THEN Ok(r.val, here) ELSE Err(r.code, r.msg, here)
    ELSE Err("E203", Msg("Unknown library: ", lib_name), inv)

\* the library call that ends the evaluation of lib.fn(args)
Dispatch(op, lib_name, func_name, args, inv) ==
    LET here == inv \o <<Invocation(op, lib_name, func_name, args)>> IN
    IF lib_name \in libraries
    THEN LET r == IF op = "call" THEN FilesCall(func_name, args)
                  ELSE FilesCheck(func_name, args)
         IN  IF r.ok THEN Ok(r.val, here) ELSE Err(r.code, r.msg, here)
    ELSE Err("E203", Msg("Unknown library: ", lib_name), inv)

RECURSIVE evaluate_expression(_, _, _)
RECURSIVE EvaluateArguments(_, _, _)

\* `for arg in arguments { args.push(self.evaluate_expression(arg)?) }`:
\* the outcomes of evaluating the expressions in order, stopping at the
\* first error
EvaluateArguments(exprs, sc, cur) ==
    IF exprs = <<>> THEN {Ok(<<>>, <<>>)}
    ELSE UNION {
        IF ~first.ok THEN {first}
        ELSE { IF rest.ok THEN Ok(<<first.val>> \o rest.val, first.inv \o rest.inv)
               ELSE Err(rest.code, rest.msg, first.inv \o rest.inv)
               : rest \in EvaluateArguments(Tail(exprs), sc, cur) }
        : first \in evaluate_expression(Head(exprs), sc, cur) }

\* the tail shared by evaluate_expression (FunctionCall) and run_check
CallLibrary(op, expr, sc, cur) ==
    LET target == get_library_function(expr.function) IN
    IF ~target.ok THEN {target}
    ELSE { IF ~args.ok THEN args
           ELSE Dispatch(op, target.val[1], target.val[2], args.val, args.inv)
           : args \in EvaluateArguments(expr.arguments, sc, cur) }

\* Interpreter::evaluate_expression: the set of its possible outcomes
evaluate_expression(expr, sc, cur) ==
    CASE expr.k = "String" -> {Ok(VString(expr.value), <<>>)}
      [] expr.k = "Number" ->
            IF expr.frac = 0 THEN {Ok(VInt(expr.int), <<>>)}
            ELSE {Ok(VFloat(expr.int, expr.frac), <<>>)}
      [] expr.k = "Boolean" -> {Ok(VBool(expr.b), <<>>)}
      [] expr.k = "List" ->
            { IF r.ok THEN Ok(VList(r.val), r.inv) ELSE r
              : r \in EvaluateArguments(expr.elements, sc, cur) }
      [] expr.k = "Identifier" -> LookupIdentifier(expr.name, sc, cur)
      [] expr.k = "MemberAccess" -> LookupMember(expr, sc)
      [] expr.k = "FunctionCall" -> CallLibrary("call", expr, sc, cur)

\* a check that is not a call is reported like a call of no library function
run_checkOneCode(expr, sc, cur) ==
    IF expr.k = "FunctionCall"
    THEN CallLibrary("check", expr, sc, cur)
    ELSE {get_library_function(expr)}

\* Interpreter::run_check: the set of its possible outcomes
run_check(expr, sc, cur) ==
    IF expr.k = "FunctionCall"
    THEN CallLibrary("check", expr, sc, cur)
    ELSE {Err("E204", Msg("Check must be a function call", <<>>), <<>>)}

(***************************************************************************)
(* The programs and options the model runs.                                *)
(***************************************************************************)
NameA == <<"a">>
NameB == <<"b">>
NameC == <<"c">>
NameM == <<"m">>
NameXM == <<"x", "m">>
NameN == <<"n">>

LibFn(lib, fn) == MemberAccess(Identifier(lib), fn)
SrcSel == FunctionCall(LibFn(Files, FolderSelector), <<StringLit("src")>>)
DocSel == FunctionCall(LibFn(Files, FolderSelector), <<StringLit("doc")>>)
NoLib == <<"nolib">>
BadSel == FunctionCall(LibFn(Files, FolderSelector), <<>>)
ExistsIn(e) == FunctionCall(LibFn(Files, Exists), <<e, StringLit("main.py")>>)

Body(scopeDecls, checkExprs) == [scopes |-> scopeDecls, checks |-> checkExprs]

\* what one element may declare: its scopes and its checks
Bodies == {
    Body(<<>>, <<>>),
    \* one passing check
    Body(<<>>, <<ExistsIn(SrcSel)>>),
    \* a failing check, a call of a function the library does not have, a
    \* check of an unregistered library whose argument is a call
    Body(<<>>, <<ExistsIn(DocSel), FunctionCall(LibFn(Files, <<"nope">>), <<>>),
                 FunctionCall(LibFn(NoLib, Exists), <<SrcSel>>)>>),
    \* a scope and a check on it
    Body(<<ScopeDeclaration(NameM, SrcSel)>>, <<ExistsIn(Identifier(NameM))>>),
    \* a scope of the same name with another value
    Body(<<ScopeDeclaration(NameM, DocSel)>>, <<>>),
    \* a scope whose name ends in "m", a scope defined by an identifier
    Body(<<ScopeDeclaration(NameXM, SrcSel),
           ScopeDeclaration(NameN, Identifier(NameM))>>,
         <<ExistsIn(Identifier(NameN))>>),
    \* a scope whose evaluation fails, a check of an unregistered library
    Body(<<ScopeDeclaration(NameM, BadSel)>>,
         <<ExistsIn(Identifier(NameM)),
           FunctionCall(LibFn(NoLib, Exists), <<Identifier(NameM)>>)>>),
    \* checks that are not of the form lib.fn(args): m, f(m), a.b.exists()
    Body(<<>>, <<Identifier(NameM),
                 FunctionCall(Identifier(<<"f">>), <<Identifier(NameM)>>),
                 FunctionCall(MemberAccess(LibFn(NameA, NameB), Exists), <<>>)>>)
}

\* element a { ... element b { ... } }  element c { ... }
Programs ==
    { <<Element(NameA, ba, <<Element(NameB, bb, <<>>)>>), Element(NameC, bc, <<>>)>>
      : ba \in Bodies, bb \in Bodies, bc \in Bodies }

Filters == {None, Some(NameA), Some(NameB), Some(NameC)}
Limits == {None} \cup {Some(n) : n \in 0..MaxLimit}
RunOptionsSet == {[filter |-> f, limit |-> l] : f \in Filters, l \in Limits}

(***************************************************************************)
(* Positions in the element tree: the sequence of child indexes from the   *)
(* program's top level.                                                    *)
(***************************************************************************)
RECURSIVE ElementIn(_, _)
ElementIn(elements, pos) ==
    IF Len(pos) = 1 THEN elements[pos[1]]
    ELSE ElementIn(elements[pos[1]].children, Tail(pos))

ElementAt(pos) == ElementIn(program, pos)
ChildrenAt(pos) == IF pos = <<>> THEN program ELSE ElementAt(pos).children
ScopesAt(pos) == IF pos = <<>> THEN <<>> ELSE ElementAt(pos).scopes
ChecksAt(pos) == IF pos = <<>> THEN <<>> ELSE ElementAt(pos).checks

\* current_path: the names from the top level down to the element at pos
current_path(pos) ==
    [i \in 1..Len(pos) |-> ElementAt(SubSeq(pos, 1, i)).name]

\* path_str = current_path.join(".")
path_str(pos) == Join(current_path(pos), Dot)

(***************************************************************************)
(* Interpreter: the traversal.                                             *)
(***************************************************************************)
EmptyOutput ==
    [total |-> 0, passed |-> 0, failed |-> 0, errors |-> 0,
     results |-> <<>>, skipped |-> 0]

\* an off-by-one limit test
LimitReachedLate(out, limit) == limit.some /\ Len(out.results) > limit.v

\* `if let Some(limit) = options.limit { if output.results.len() >= limit`
LimitReached(out, limit) == limit.some /\ Len(out.results) >= limit.v

\* matches_filter
MatchesFilter(path, filter) == IF filter.some THEN Contains(path, filter.v) ELSE TRUE

\* HashMap::insert
Insert(map, key, value) ==
    [k \in DOMAIN map \cup {key} |-> IF k = key THEN value ELSE map[k]]

Frame(pos, matches) ==
    [pos |-> pos, si |-> 1, ci |-> 1, chi |-> 1, matches_filter |-> matches]

FrameDone(f) ==
    /\ f.si > Len(ScopesAt(f.pos))
    /\ f.ci > Len(ChecksAt(f.pos))
    /\ f.chi > Len(ChildrenAt(f.pos))

RECURSIVE Unwind(_)
\* return from every activation that has nothing left to do
Unwind(st) ==
    IF st = <<>> THEN <<>>
    ELSE IF FrameDone(st[Len(st)]) THEN Unwind(SubSeq(st, 1, Len(st) - 1))
    ELSE st

Top == stack[Len(stack)]
ReplaceTop(f) == [stack EXCEPT ![Len(stack)] = f]
Continue(st) ==
    /\ stack' = Unwind(st)
    /\ pc' = IF Unwind(st) = <<>> THEN "returned" ELSE "running"

\* Interpreter::run_with_options up to its loop over program.elements
BeginRun ==
    /\ output' = EmptyOutput
    /\ stack' = <<Frame(<<>>, TRUE)>>
    /\ history' = <<>>
    /\ run' = run + 1
    /\ pc' = "running"

\* Diagnostics::has_errors, on the severities of the diagnostics
has_errors(diags) == \E i \in 1..Len(diags) : diags[i] = "Error"

\* what Interpreter::validate may hand to cmd_run: the severities of its
\* diagnostics
ValidationDiagnostics == {<<>>, <<"Warning">>, <<"Error">>, <<"Warning", "Error">>}

\* cmd_run before the run: what it does for a file and its validation
BeforeRun(readable, diags, dry_run) ==
    IF ~readable THEN [exit |-> TRUE, code |-> 2]
    ELSE IF has_errors(diags) THEN [exit |-> TRUE, code |-> 1]
    ELSE IF dry_run THEN [exit |-> TRUE, code |-> 0]
    ELSE [exit |-> FALSE, code |-> -1]

\* an exit code that looks at failed checks only
ExitCodeForFailed(out) == IF out.failed > 0 THEN 1 ELSE 0

\* cmd_run after the run: the exit code for a CheckOutput
ExitCodeFor(out) == IF out.failed > 0 \/ out.errors > 0 THEN 1 ELSE 0

(***************************************************************************)
(* Actions.                                                                *)
(***************************************************************************)
Init ==
    /\ program \in Programs
    /\ options \in RunOptionsSet
    /\ pc = "start"
    /\ exitCode = -1
    /\ validation = [done |-> FALSE]
    \* Interpreter::new
    /\ scopes = <<>>
    /\ diagnostics = <<>>
    /\ current_element_path = <<>>
    /\ output = EmptyOutput
    /\ stack = <<>>
    /\ run = 0
    /\ fresh = TRUE
    /\ history = <<>>
    /\ previous = [valid |-> FALSE]
    /\ NoValidation
    /\ FrontEndIdle
    /\ TransportIdle

\* cmd_run: read the file, validate it, and either exit or start the run on
\* the Interpreter it created
CmdRun ==
    /\ pc = "start"
    /\ \E readable \in BOOLEAN, diags \in ValidationDiagnostics, dry_run \in BOOLEAN :
        LET todo == BeforeRun(readable, diags, dry_run) IN
        /\ validation' = [done |-> TRUE, readable |-> readable,
                          has_errors |-> readable /\ has_errors(diags),
                          dry_run |-> dry_run]
        /\ IF todo.exit
           THEN /\ pc' = "exited"
                /\ exitCode' = todo.code
                /\ UNCHANGED <<output, stack, history, run>>
           ELSE /\ BeginRun
                /\ UNCHANGED exitCode
    /\ UNCHANGED <<program, options, scopes, diagnostics, current_element_path,
                   fresh, previous>>
    /\ UNCHANGED outsideRun

\* run_element_with_options is called for the next child (or top-level
\* element) and the limit is not reached: the element's activation starts
EnterElement ==
    /\ pc = "running"
    /\ LET f == Top
           pos == f.pos \o <<f.chi>>
       IN
       /\ f.si > Len(ScopesAt(f.pos))
       /\ f.ci > Len(ChecksAt(f.pos))
       /\ f.chi <= Len(ChildrenAt(f.pos))
       /\ current_element_path' = path_str(pos)
       /\ ~LimitReached(output, options.limit)
       /\ Continue(Append(ReplaceTop([f EXCEPT !.chi = f.chi + 1]),
                          Frame(pos, MatchesFilter(path_str(pos), options.filter))))
    /\ UNCHANGED <<program, options, exitCode, validation, scopes, diagnostics,
                   output, run, fresh, history, previous>>
    /\ UNCHANGED outsideRun

\* run_element_with_options is called with the limit reached: it returns at
\* once
EnterElementAtLimit ==
    /\ pc = "running"
    /\ LET f == Top
           pos == f.pos \o <<f.chi>>
       IN
       /\ f.si > Len(ScopesAt(f.pos))
       /\ f.ci > Len(ChecksAt(f.pos))
       /\ f.chi <= Len(ChildrenAt(f.pos))
       /\ current_element_path' = path_str(pos)
       /\ LimitReached(output, options.limit)
       /\ Continue(ReplaceTop([f EXCEPT !.chi = f.chi + 1]))
    /\ UNCHANGED <<program, options, exitCode, validation, scopes, diagnostics,
                   output, run, fresh, history, previous>>
    /\ UNCHANGED outsideRun

\* the scopes of an element that does not match the filter are passed over
EvaluateScopeIfMatching ==
    /\ pc = "running"
    /\ LET f == Top IN
       /\ f.si <= Len(ScopesAt(f.pos))
       /\ LET scope == ScopesAt(f.pos)[f.si]
              scope_name == path_str(f.pos) \o Dot \o scope.name
          IN IF f.matches_filter
             THEN \E r \in evaluate_expression(scope.expression, scopes,
                                               current_element_path) :
               /\ IF r.ok
                  THEN /\ scopes' = Insert(scopes, scope_name, r.val)
                       /\ UNCHANGED diagnostics
                  ELSE /\ diagnostics' = Append(diagnostics, r.code)
                       /\ UNCHANGED scopes
               /\ history' = Append(history,
                     [ev |-> "scope", pos |-> f.pos, i |-> f.si, key |-> scope_name,
                      ok |-> r.ok, inv |-> r.inv])
             ELSE UNCHANGED <<scopes, diagnostics, history>>
       /\ Continue(ReplaceTop([f EXCEPT !.si = f.si + 1]))
    /\ UNCHANGED <<program, options, exitCode, validation, current_element_path,
                   output, run, fresh, previous>>
    /\ UNCHANGED outsideRun

\* one iteration of `for scope in &element.scopes`
EvaluateScope ==
    /\ pc = "running"
    /\ LET f == Top IN
       /\ f.si <= Len(ScopesAt(f.pos))
       /\ LET scope == ScopesAt(f.pos)[f.si]
              scope_name == path_str(f.pos) \o Dot \o scope.name
          IN \E r \in evaluate_expression(scope.expression, scopes, current_element_path) :
               /\ IF r.ok
                  THEN /\ scopes' = Insert(scopes, scope_name, r.val)
                       /\ UNCHANGED diagnostics
                  ELSE /\ diagnostics' = Append(diagnostics, r.code)
                       /\ UNCHANGED scopes
               /\ history' = Append(history,
                     [ev |-> "scope", pos |-> f.pos, i |-> f.si, key |-> scope_name,
                      ok |-> r.ok, inv |-> r.inv])
       /\ Continue(ReplaceTop([f EXCEPT !.si = f.si + 1]))
    /\ UNCHANGED <<program, options, exitCode, validation, current_element_path,
                   output, run, fresh, previous>>
    /\ UNCHANGED outsideRun

\* one iteration of `for check in &element.checks` with the limit reached
SkipCheckAtLimit ==
    /\ pc = "running"
    /\ LET f == Top IN
       /\ f.si > Len(ScopesAt(f.pos))
       /\ f.ci <= Len(ChecksAt(f.pos))
       /\ LimitReached(output, options.limit)
       /\ output' = [output EXCEPT !.skipped = @ + 1]
       /\ history' = Append(history, [ev |-> "skip", pos |-> f.pos, i |-> f.ci])
       /\ Continue(ReplaceTop([f EXCEPT !.ci = f.ci + 1]))
    /\ UNCHANGED <<program, options, exitCode, validation, scopes, diagnostics,
                   current_element_path, run, fresh, previous>>
    /\ UNCHANGED outsideRun

\* one iteration of `for check in &element.checks` in an element whose path
\* does not match the filter
SkipCheckFiltered ==
    /\ pc = "running"
    /\ LET f == Top IN
       /\ f.si > Len(ScopesAt(f.pos))
       /\ f.ci <= Len(ChecksAt(f.pos))
       /\ ~LimitReached(output, options.limit)
       /\ ~f.matches_filter
       /\ output' = [output EXCEPT !.skipped = @ + 1]
       /\ history' = Append(history, [ev |-> "skip", pos |-> f.pos, i |-> f.ci])
       /\ Continue(ReplaceTop([f EXCEPT !.ci = f.ci + 1]))
    /\ UNCHANGED <<program, options, exitCode, validation, scopes, diagnostics,
                   current_element_path, run, fresh, previous>>
    /\ UNCHANGED outsideRun

\* a check that ends in an evaluation error is counted and not listed
RecordDroppingErrors(out, path, check_expr, r) ==
    IF r.ok
    THEN [out EXCEPT
            !.total = @ + 1,
            !.passed = IF r.val.r = "Pass" THEN @ + 1 ELSE @,
            !.failed = IF r.val.r = "Fail" THEN @ + 1 ELSE @,
            !.errors = IF r.val.r = "Error" THEN @ + 1 ELSE @,
            !.results = Append(@, [element_path |-> path, check_expr |-> check_expr,
                                   result |-> r.val])]
    ELSE [out EXCEPT !.total = @ + 1, !.errors = @ + 1]

\* the newest result is put first
RecordInFront(out, path, check_expr, r) ==
    LET result == IF r.ok THEN r.val ELSE Error(r.msg) IN
    [out EXCEPT
        !.total = @ + 1,
        !.passed = IF result.r = "Pass" THEN @ + 1 ELSE @,
        !.failed = IF result.r = "Fail" THEN @ + 1 ELSE @,
        !.errors = IF result.r = "Error" THEN @ + 1 ELSE @,
        !.results = <<[element_path |-> path, check_expr |-> check_expr,
                       result |-> result]>> \o @]

\* a check that ends in Error is counted as failed as well
RecordErrorAsFailedToo(out, path, check_expr, r) ==
    LET result == IF r.ok THEN r.val ELSE Error(r.msg) IN
    [out EXCEPT
        !.total = @ + 1,
        !.passed = IF result.r = "Pass" THEN @ + 1 ELSE @,
        !.failed = IF result.r \in {"Fail", "Error"} THEN @ + 1 ELSE @,
        !.errors = IF result.r = "Error" THEN @ + 1 ELSE @,
        !.results = Append(@, [element_path |-> path, check_expr |-> check_expr,
                               result |-> result])]

\* the counters and the result list after a check ended with r
Record(out, path, check_expr, r) ==
    LET result == IF r.ok THEN r.val ELSE Error(r.msg) IN
    [out EXCEPT
        !.total = @ + 1,
        !.passed = IF result.r = "Pass" THEN @ + 1 ELSE @,
        !.failed = IF result.r = "Fail" THEN @ + 1 ELSE @,
        !.errors = IF result.r = "Error" THEN @ + 1 ELSE @,
        !.results = Append(@, [element_path |-> path, check_expr |-> check_expr,
                               result |-> result])]

\* one iteration of `for check in &element.checks` that executes the check
RunCheck ==
    /\ pc = "running"
    /\ LET f == Top IN
       /\ f.si > Len(ScopesAt(f.pos))
       /\ f.ci <= Len(ChecksAt(f.pos))
       /\ ~LimitReached(output, options.limit)
       /\ f.matches_filter
       /\ LET expr == ChecksAt(f.pos)[f.ci] IN
          \E r \in run_check(expr, scopes, current_element_path) :
            /\ output' = Record(output, path_str(f.pos), expression_to_string(expr), r)
            /\ history' = Append(history,
                  [ev |-> "check", pos |-> f.pos, i |-> f.ci,
                   code |-> IF r.ok THEN "" ELSE r.code, inv |-> r.inv])
       /\ Continue(ReplaceTop([f EXCEPT !.ci = f.ci + 1]))
    /\ UNCHANGED <<program, options, exitCode, validation, scopes, diagnostics,
                   current_element_path, run, fresh, previous>>
    /\ UNCHANGED outsideRun

\* cmd_run after run_with_options returned
CmdRunExit ==
    /\ pc = "returned"
    /\ run = 1
    /\ pc' = "exited"
    /\ exitCode' = ExitCodeFor(output)
    /\ UNCHANGED <<program, options, validation, scopes, diagnostics,
                   current_element_path, output, stack, run, fresh, history, previous>>
    /\ UNCHANGED outsideRun

\* what is kept of an invocation that returned
Outcome == [valid |-> TRUE, fresh |-> fresh, output |-> output]

\* run_with_options is invoked again on the same Interpreter
RunAgain ==
    /\ pc = "returned"
    /\ run < MaxRuns
    /\ previous' = Outcome
    /\ fresh' = FALSE
    /\ BeginRun
    /\ UNCHANGED <<program, options, exitCode, validation, scopes, diagnostics,
                   current_element_path>>
    /\ UNCHANGED outsideRun

\* the new Interpreter starts with the scopes of the one before
RunOnNewInterpreterKeepingScopes ==
    /\ pc = "returned"
    /\ run < MaxRuns
    /\ previous' = Outcome
    /\ fresh' = TRUE
    /\ diagnostics' = <<>>
    /\ current_element_path' = <<>>
    /\ BeginRun
    /\ UNCHANGED <<program, options, exitCode, validation, scopes>>
    /\ UNCHANGED outsideRun

\* run_with_options is invoked on a new Interpreter for the same workspace
RunOnNewInterpreter ==
    /\ pc = "returned"
    /\ run < MaxRuns
    /\ previous' = Outcome
    /\ fresh' = TRUE
    /\ scopes' = <<>>
    /\ diagnostics' = <<>>
    /\ current_element_path' = <<>>
    /\ BeginRun
    /\ UNCHANGED <<program, options, exitCode, validation>>
    /\ UNCHANGED outsideRun

Next ==
    \/ CmdRun
    \/ EnterElement
    \/ EnterElementAtLimit
    \/ EvaluateScope
    \/ SkipCheckAtLimit
    \/ SkipCheckFiltered
    \/ RunCheck
    \/ CmdRunExit
    \/ RunAgain
    \/ RunOnNewInterpreter

Spec == Init /\ [][Next]_vars

(***************************************************************************)
(* Properties.                                                             *)
(***************************************************************************)
Returned == pc = "returned"

\* C1: the CheckOutput returned by run_with_options holds at most `limit`
\* results when a limit is set (0 included), and only results whose
\* element_path contains the filter when a filter is set.
FilterLimitLaws ==
    Returned =>
        /\ options.limit.some => Len(output.results) <= options.limit.v
        /\ options.filter.some =>
              \A i \in 1..Len(output.results) :
                  Contains(output.results[i].element_path, options.filter.v)

\* a run with a filter and a limit that stopped at the limit and skipped
\* checks for it
FilterLimitWitness ==
    /\ Returned
    /\ options.limit.some /\ options.limit.v > 0
    /\ options.filter.some
    /\ Len(output.results) = options.limit.v
    /\ \E i \in 1..Len(history) : history[i].ev = "skip"

RECURSIVE CountChecks(_)
\* the check declarations of a list of elements, at all nesting levels
CountChecks(elements) ==
    IF elements = <<>> THEN 0
    ELSE Len(Head(elements).checks) + CountChecks(Head(elements).children)
            + CountChecks(Tail(elements))

OnePassingCheck == Body(<<>>, <<ExistsIn(SrcSel)>>)

\* elements a, a.b and c, each holding one passing check, run with
\* --filter a --limit 1
FilterLimitScenario ==
    /\ program = <<Element(NameA, OnePassingCheck,
                           <<Element(NameB, OnePassingCheck, <<>>)>>),
                   Element(NameC, OnePassingCheck, <<>>)>>
    /\ options = [filter |-> Some(NameA), limit |-> Some(1)]

\* C2: every check that is not executed is counted in skipped, so total +
\* skipped is the number of check declarations of the program; in the
\* scenario above there is exactly one result, of an element whose path
\* starts with "a", and skipped >= 1.
SkippedCountsEveryCheck ==
    Returned =>
        /\ output.total + output.skipped = CountChecks(program)
        /\ FilterLimitScenario =>
              /\ Len(output.results) = 1
              /\ StartsWith(output.results[1].element_path, NameA)
              /\ output.skipped >= 1

\* C3: `run` on a readable file, not a dry run, exits with 0 exactly when
\* validation reported no error and the output has neither failed nor
\* errored checks; with a validation error it exits with 1 and has executed
\* no check.
ExitCodeContract ==
    (pc = "exited" /\ validation.readable /\ ~validation.dry_run) =>
        /\ exitCode = 0 <=>
              (~validation.has_errors /\ output.failed = 0 /\ output.errors = 0)
        /\ validation.has_errors =>
              (exitCode = 1 /\ run = 0 /\ history = <<>> /\ output.total = 0)

\* a run whose only trouble is a check that ended in Error
ExitCodeWitness ==
    /\ pc = "exited"
    /\ validation.readable /\ ~validation.dry_run /\ ~validation.has_errors
    /\ output.errors > 0 /\ output.failed = 0 /\ output.passed > 0
    /\ exitCode = 1

\* C4: two runs of the same program with the same options, each on a new
\* Interpreter for the same workspace, return the same results and the same
\* counters.
RunsAreDeterministic ==
    (Returned /\ fresh /\ previous.valid /\ previous.fresh) =>
        output = previous.output

RECURSIVE PositionsIn(_, _, _)
\* the positions of the elements below `prefix`, given its children
PositionsIn(elements, prefix, i) ==
    IF i > Len(elements) THEN {}
    ELSE {prefix \o <<i>>}
            \cup PositionsIn(elements[i].children, prefix \o <<i>>, 1)
            \cup PositionsIn(elements, prefix, i + 1)

Positions == PositionsIn(program, <<>>, 1)

\* the entries of the results for the check `expr` of the element at pos
EntriesOf(pos, expr) ==
    {i \in 1..Len(output.results) :
        /\ output.results[i].element_path = path_str(pos)
        /\ output.results[i].check_expr = expression_to_string(expr)}

\* the declarations of the check `expr` in the element at pos
DeclarationsOf(pos, expr) ==
    {i \in 1..Len(ChecksAt(pos)) : ChecksAt(pos)[i] = expr}

\* C5: with no limit, every check of every element whose path matches the
\* filter has exactly one entry in the results, whatever the outcomes of
\* earlier checks and scope evaluations.
FailuresDoNotAbort ==
    (Returned /\ ~options.limit.some) =>
        /\ \A pos \in Positions :
              \A c \in 1..Len(ChecksAt(pos)) :
                  Cardinality(EntriesOf(pos, ChecksAt(pos)[c])) =
                      IF MatchesFilter(path_str(pos), options.filter)
                      THEN Cardinality(DeclarationsOf(pos, ChecksAt(pos)[c]))
                      ELSE 0
        /\ \A i \in 1..Len(output.results) :
              \E pos \in Positions : i \in UNION {EntriesOf(pos, ChecksAt(pos)[c]) :
                                                     c \in 1..Len(ChecksAt(pos))}

\* a run without limit in which a scope evaluation failed, a check ended in
\* Error, a later one in Fail and a still later one in Pass
FailuresDoNotAbortWitness ==
    /\ Returned /\ ~options.limit.some
    /\ diagnostics # <<>>
    /\ \E i, j, k \in 1..Len(output.results) :
          /\ i < j /\ j < k
          /\ output.results[i].result.r = "Error"
          /\ output.results[j].result.r = "Fail"
          /\ output.results[k].result.r = "Pass"

\* position p comes before position q in a pre-order walk of the tree
PreOrderBefore(p, q) ==
    \/ Len(p) < Len(q) /\ SubSeq(q, 1, Len(p)) = p
    \/ \E i \in 1..Len(p) :
          /\ i <= Len(q)
          /\ SubSeq(p, 1, i - 1) = SubSeq(q, 1, i - 1)
          /\ p[i] < q[i]

\* event d belongs before event e: by element in pre-order; within an
\* element the scopes first, then the checks, each in source order
EventBefore(d, e) ==
    IF d.pos # e.pos THEN PreOrderBefore(d.pos, e.pos)
    ELSE IF (d.ev = "scope") # (e.ev = "scope") THEN d.ev = "scope"
    ELSE d.i < e.i

\* the checks executed so far, in the order of their execution
CheckEvents == SelectSeq(history, LAMBDA e : e.ev = "check")

\* C6: the results are in global pre-order (an element's checks in source
\* order, before those of its descendants, its subtree before its later
\* siblings), and within an element every scope is evaluated, in source
\* order, before the first check is executed.
ResultsInPreOrder ==
    /\ \A i, j \in 1..Len(history) : i < j => EventBefore(history[i], history[j])
    /\ \A j \in 1..Len(history) :
          history[j].ev # "scope" =>
              \A n \in 1..Len(ScopesAt(history[j].pos)) :
                  \E i \in 1..(j - 1) :
                      /\ history[i].ev = "scope"
                      /\ history[i].pos = history[j].pos
                      /\ history[i].i = n
    /\ Len(output.results) = Len(CheckEvents)
    /\ \A k \in 1..Len(CheckEvents) :
          /\ output.results[k].element_path = path_str(CheckEvents[k].pos)
          /\ output.results[k].check_expr =
                expression_to_string(ChecksAt(CheckEvents[k].pos)[CheckEvents[k].i])

\* a run that executed checks of a, of its child a.b and of c, evaluated two
\* scopes of one element and executed two checks of one element
ResultsInPreOrderWitness ==
    /\ Returned
    /\ \A pos \in Positions : \E k \in 1..Len(CheckEvents) : CheckEvents[k].pos = pos
    /\ \E i \in 1..Len(history) : history[i].ev = "scope" /\ history[i].i = 2
    /\ \E k \in 1..Len(CheckEvents) : CheckEvents[k].i = 2

\* expr has the form lib.fn(args...)
IsLibraryCall(expr) ==
    /\ expr.k = "FunctionCall"
    /\ expr.function.k = "MemberAccess"
    /\ expr.function.object.k = "Identifier"

CheckExprOf(e) == ChecksAt(e.pos)[e.i]

\* C7 as stated: every executed check whose expression is not of the form
\* lib.fn(args...) is recorded as an Error produced by diagnostic E204.
CheckShapeAlwaysE204 ==
    \A k \in 1..Len(CheckEvents) :
        ~IsLibraryCall(CheckExprOf(CheckEvents[k])) =>
            /\ CheckEvents[k].code = "E204"
            /\ output.results[k].result.r = "Error"

\* C7 as amended: an executed check whose expression is not a function call
\* is recorded as an Error produced by E204; one that is a call of something
\* else than lib.fn (such as f(x) or a.b.c(x)) is recorded as an Error
\* produced by E205; no library is invoked in either case.
CheckShapeE204OrE205 ==
    \A k \in 1..Len(CheckEvents) :
        LET expr == CheckExprOf(CheckEvents[k]) IN
        /\ ~IsLibraryCall(expr) => CheckEvents[k].inv = <<>>
        /\ expr.k # "FunctionCall" =>
              /\ CheckEvents[k].code = "E204"
              /\ output.results[k].result = Error(Msg("Check must be a function call", <<>>))
        /\ (expr.k = "FunctionCall" /\ ~IsLibraryCall(expr)) =>
              /\ CheckEvents[k].code = "E205"
              /\ output.results[k].result = Error(Msg("Expected library.function", <<>>))

\* a run that executed the checks m, f(m) and a.b.exists()
CheckShapeWitness ==
    /\ Returned
    /\ \E k \in 1..Len(CheckEvents) : CheckExprOf(CheckEvents[k]).k = "Identifier"
    /\ \E k \in 1..Len(CheckEvents) :
          /\ CheckExprOf(CheckEvents[k]).k = "FunctionCall"
          /\ CheckExprOf(CheckEvents[k]).function.k = "Identifier"
    /\ \E k \in 1..Len(CheckEvents) :
          /\ CheckExprOf(CheckEvents[k]).k = "FunctionCall"
          /\ CheckExprOf(CheckEvents[k]).function.k = "MemberAccess"
          /\ CheckExprOf(CheckEvents[k]).function.object.k = "MemberAccess"

\* the check executed last, when nothing was evaluated since
LastIsCheck == history # <<>> /\ history[Len(history)].ev = "check"
LastEvent == history[Len(history)]

\* the invocations of Library::check among the invocations inv
CheckInvocations(inv) == SelectSeq(inv, LAMBDA c : c.op = "check")

\* the values argument expression a can evaluate to in element pos
ValuesOf(a, pos) ==
    {r.val : r \in {x \in evaluate_expression(a, scopes, path_str(pos)) : x.ok}}

\* the check operation got function fn and the evaluated arguments, in order
InvokedWith(c, lib, fn, arguments, pos) ==
    /\ c.lib = lib
    /\ c.fn = fn
    /\ Len(c.args) = Len(arguments)
    /\ \A i \in 1..Len(arguments) : c.args[i] \in ValuesOf(arguments[i], pos)

\* C8 as stated: for an executed check lib.fn(a1, ..., an), a registered lib
\* has its check operation invoked exactly once with fn and the evaluated
\* arguments in order; an unregistered lib gives an Error from E203 and no
\* library is invoked.
DispatchContractAsStated ==
    (LastIsCheck /\ IsLibraryCall(CheckExprOf(LastEvent))) =>
        LET expr == CheckExprOf(LastEvent)
            lib == expr.function.object.name
            invoked == CheckInvocations(LastEvent.inv)
        IN  IF lib \in Registered
            THEN /\ Len(invoked) = 1
                 /\ InvokedWith(invoked[1], lib, expr.function.member,
                                expr.arguments, LastEvent.pos)
            ELSE /\ LastEvent.code = "E203"
                 /\ LastEvent.inv = <<>>

\* every argument of expr evaluates to a value in element pos
ArgumentsEvaluate(expr, pos) ==
    \A i \in 1..Len(expr.arguments) :
        \A r \in evaluate_expression(expr.arguments[i], scopes, path_str(pos)) : r.ok

\* C8 as amended: for an executed check lib.fn(a1, ..., an) whose arguments
\* all evaluate, a registered lib has its check operation invoked exactly
\* once, after the evaluation of the arguments, with fn and the evaluated
\* arguments in order, and an unregistered lib gives an Error from E203 and
\* no check operation is invoked; when an argument does not evaluate, the
\* check is an Error from the diagnostic of that argument and no check
\* operation is invoked, whether lib is registered or not.
DispatchContract ==
    (LastIsCheck /\ IsLibraryCall(CheckExprOf(LastEvent))) =>
        LET expr == CheckExprOf(LastEvent)
            lib == expr.function.object.name
            inv == LastEvent.inv
            invoked == CheckInvocations(inv)
            recorded == output.results[Len(output.results)].result
        IN  IF ArgumentsEvaluate(expr, LastEvent.pos)
            THEN IF lib \in Registered
                 THEN /\ Len(invoked) = 1
                      /\ inv[Len(inv)].op = "check"
                      /\ InvokedWith(invoked[1], lib, expr.function.member,
                                     expr.arguments, LastEvent.pos)
                 ELSE /\ LastEvent.code = "E203"
                      /\ recorded = Error(Msg("Unknown library: ", lib))
                      /\ invoked = <<>>
            ELSE /\ invoked = <<>>
                 /\ \E i \in 1..Len(expr.arguments) :
                       \E r \in evaluate_expression(expr.arguments[i], scopes,
                                                    path_str(LastEvent.pos)) :
                           /\ ~r.ok
                           /\ LastEvent.code = r.code
                           /\ recorded = Error(r.msg)

\* files.exists(m, 'main.py') was executed in an element that stores m: the
\* library was handed the stored scope and the file name
DispatchContractWitness ==
    /\ LastIsCheck
    /\ CheckExprOf(LastEvent) = ExistsIn(Identifier(NameM))
    /\ (path_str(LastEvent.pos) \o Dot \o NameM) \in DOMAIN scopes
    /\ LastEvent.inv = <<Invocation("check", Files, Exists,
                           <<scopes[path_str(LastEvent.pos) \o Dot \o NameM],
                             VString("main.py")>>)>>

\* the part of a scope key after its last dot: the name of the scope
LastSegment(key) ==
    LET dots == {i \in 1..Len(key) : key[i] = "."} IN
    IF dots = {} THEN key
    ELSE SubSeq(key, (CHOOSE i \in dots : \A j \in dots : j <= i) + 1, Len(key))

\* the stored keys whose scope is named X
KeysNamed(X) == {key \in DOMAIN scopes : LastSegment(key) = X}

\* what the evaluation of identifier X in the element of path P gave, from
\* the stored scopes: found with value val, or not found with diagnostic code
ResolvedByTheRules(X, P, found, val, code) ==
    IF (P \o Dot \o X) \in DOMAIN scopes
    THEN found /\ val = scopes[P \o Dot \o X]
    ELSE IF KeysNamed(X) # {}
         THEN found /\ \E key \in KeysNamed(X) : val = scopes[key]
         ELSE ~found /\ code = "E200"

\* the check executed last is lib.fn(X, literals...) with X an identifier
LastCheckTakesIdentifier ==
    /\ LastIsCheck
    /\ IsLibraryCall(CheckExprOf(LastEvent))
    /\ CheckExprOf(LastEvent).function.object.name \in Registered
    /\ Len(CheckExprOf(LastEvent).arguments) >= 1
    /\ CheckExprOf(LastEvent).arguments[1].k = "Identifier"
    /\ \A i \in 2..Len(CheckExprOf(LastEvent).arguments) :
          CheckExprOf(LastEvent).arguments[i].k = "String"

\* the scope evaluated last is declared as `scope s = X` with X an
\* identifier other than s
LastScopeIsIdentifier ==
    /\ history # <<>>
    /\ LastEvent.ev = "scope"
    /\ ScopesAt(LastEvent.pos)[LastEvent.i].expression.k = "Identifier"
    /\ ScopesAt(LastEvent.pos)[LastEvent.i].expression.name
          # ScopesAt(LastEvent.pos)[LastEvent.i].name

\* C9: a bare identifier X evaluated in the element of path P gives the value
\* stored under 'P.X' whenever that key is stored, whatever else is stored;
\* otherwise the value of a stored key that ends with '.X' or equals X, if
\* there is one; otherwise it fails with E200.  A key whose last segment only
\* has X as a proper suffix is never the one returned.
IdentifierResolution ==
    /\ LastCheckTakesIdentifier =>
          LET invoked == CheckInvocations(LastEvent.inv)
              found == invoked # <<>>
          IN  /\ ResolvedByTheRules(CheckExprOf(LastEvent).arguments[1].name,
                                    path_str(LastEvent.pos), found,
                                    IF found THEN invoked[1].args[1] ELSE <<>>,
                                    LastEvent.code)
              /\ ~found => LastEvent.inv = <<>>
    /\ LastScopeIsIdentifier =>
          ResolvedByTheRules(ScopesAt(LastEvent.pos)[LastEvent.i].expression.name,
                             path_str(LastEvent.pos), LastEvent.ok,
                             IF LastEvent.ok THEN scopes[LastEvent.key] ELSE <<>>,
                             IF LastEvent.ok THEN ""
                             ELSE diagnostics[Len(diagnostics)])

\* files.exists(m, 'main.py') ended in E200 in an element without a scope m
\* while the scope a.xm was stored
IdentifierResolutionWitness ==
    /\ LastCheckTakesIdentifier
    /\ CheckExprOf(LastEvent).arguments[1].name = NameM
    /\ LastEvent.code = "E200"
    /\ (NameA \o Dot \o NameXM) \in DOMAIN scopes
    /\ EndsWith(NameA \o Dot \o NameXM, NameM)

\* the keys written to the scope mapping by the invocation in progress
KeysWritten ==
    {history[i].key : i \in {j \in 1..Len(history) :
                                history[j].ev = "scope" /\ history[j].ok}}

\* the scope mapping holds only keys written by the invocation in progress
OnlyKeysOfThisRun == DOMAIN scopes \subseteq KeysWritten

\* an identifier that a check resolved names a scope written by the
\* invocation in progress
ResolvesInThisRun ==
    (LastCheckTakesIdentifier /\ CheckInvocations(LastEvent.inv) # <<>>) =>
        \E key \in KeysWritten :
            LastSegment(key) = CheckExprOf(LastEvent).arguments[1].name

\* C10: scope values live for one run invocation only: when run_with_options
\* is invoked again on the same Interpreter, the scope mapping contains only
\* keys written during the current invocation, and no identifier resolves to
\* a scope value stored by an earlier invocation.
ScopesLiveOneRun ==
    (pc \in {"running", "returned"}) => (OnlyKeysOfThisRun /\ ResolvesInThisRun)

(***************************************************************************)
(* The lexer (hielements-core/lexer.rs).  The text of a file is a sequence *)
(* of lexemes: " " and "\t", "\n", and the words, punctuation, literals    *)
(* and comments the token rules match as a whole.                          *)
(***************************************************************************)
Token(kind, text) == [kind |-> kind, text |-> text]

\* the keywords and punctuation of TokenKind with a #[token] rule in lexer.rs
KeywordKind ==
    [w \in {"element", "template", "implements", "scope", "connection_point",
            "check", "import", "from", "as", "true", "false", "to",
            ":", "=", ".", ",", "(", ")", "[", "]", "*"} |->
        CASE w = "element" -> "Element"
          [] w = "template" -> "Template"
          [] w = "implements" -> "Implements"
          [] w = "scope" -> "Scope"
          [] w = "connection_point" -> "ConnectionPoint"
          [] w = "check" -> "Check"
          [] w = "import" -> "Import"
          [] w = "from" -> "From"
          [] w = "as" -> "As"
          [] w = "true" -> "True"
          [] w = "false" -> "False"
          [] w = "to" -> "To"
          [] w = ":" -> "Colon"
          [] w = "=" -> "Equals"
          [] w = "." -> "Dot"
          [] w = "," -> "Comma"
          [] w = "(" -> "LParen"
          [] w = ")" -> "RParen"
          [] w = "[" -> "LBracket"
          [] w = "]" -> "RBracket"
          [] w = "*" -> "Star"]

\* the keywords and punctuation the parser matches on that the token rules
\* of lexer.rs do not list
LaterKeywordKind ==
    [w \in {"ref", "uses", "binds", "requires", "allows", "forbids",
            "descendant", "connection", "language", "connection_check",
            "{", "}", "<", ">"} |->
        CASE w = "ref" -> "Ref"
          [] w = "uses" -> "Uses"
          [] w = "binds" -> "Binds"
          [] w = "requires" -> "Requires"
          [] w = "allows" -> "Allows"
          [] w = "forbids" -> "Forbids"
          [] w = "descendant" -> "Descendant"
          [] w = "connection" -> "Connection"
          [] w = "language" -> "Language"
          [] w = "connection_check" -> "ConnectionCheck"
          [] w = "{" -> "LBrace"
          [] w = "}" -> "RBrace"
          [] w = "<" -> "LAngle"
          [] w = ">" -> "RAngle"]

\* the lexemes of the literal and comment rules that the model writes
StringLexemes == {"'s'"}
NumberLexemes == {"1"}
CommentLexemes == {"#c"}
DocCommentLexemes == {"##d"}
\* a byte no rule matches
InvalidLexemes == {"?"}

\* the TokenKind logos gives a lexeme ("Err" when no rule matches)
TokenKindOf(w) ==
    IF w \in DOMAIN KeywordKind THEN KeywordKind[w]
    ELSE IF w \in DOMAIN LaterKeywordKind THEN LaterKeywordKind[w]
    ELSE IF w = "\n" THEN "Newline"
    ELSE IF w \in StringLexemes THEN "StringSingle"
    ELSE IF w \in NumberLexemes THEN "Number"
    ELSE IF w \in CommentLexemes THEN "Comment"
    ELSE IF w \in DocCommentLexemes THEN "DocComment"
    ELSE IF w \in InvalidLexemes THEN "Err"
    ELSE "Identifier"

\* Lexer::new
LexerNew ==
    [phase |-> "lexing", offset |-> 1, indent_stack |-> <<0>>,
     pending_tokens |-> <<>>, at_line_start |-> TRUE, line_start_offset |-> 1,
     finished |-> FALSE]

Last(seq) == seq[Len(seq)]
Front(seq) == SubSeq(seq, 1, Len(seq) - 1)

RECURSIVE CountIndent(_, _, _)
\* the loop of process_indentation over the characters from pos: the
\* indentation counted and how the loop ended
CountIndent(src, pos, indent) ==
    IF pos > Len(src) THEN [indent |-> indent, end |-> "code"]
    ELSE IF src[pos] = " " THEN CountIndent(src, pos + 1, indent + 1)
    ELSE IF src[pos] = "\t" THEN CountIndent(src, pos + 1, indent + 4)
    ELSE IF src[pos] = "\n" THEN [indent |-> indent, end |-> "blank"]
    ELSE IF src[pos] \in CommentLexemes \cup DocCommentLexemes
         THEN [indent |-> indent, end |-> "comment"]
    ELSE [indent |-> indent, end |-> "code"]

RECURSIVE PopLevelsThrough(_, _, _)
\* the level equal to the indentation is popped too
PopLevelsThrough(levels, pending, indent) ==
    IF levels = <<>> \/ Last(levels) < indent
    THEN [indent_stack |-> levels, pending_tokens |-> pending]
    ELSE PopLevelsThrough(Front(levels), Append(pending, Token("Dedent", "")), indent)

\* one level popped at most
PopLevelsOnce(levels, pending, indent) ==
    IF levels = <<>> \/ Last(levels) <= indent
    THEN [indent_stack |-> levels, pending_tokens |-> pending]
    ELSE [indent_stack |-> Front(levels),
          pending_tokens |-> Append(pending, Token("Dedent", ""))]

RECURSIVE PopLevels(_, _, _)
\* `while let Some(&top) = self.indent_stack.last()`: one DEDENT per level
\* popped
PopLevels(levels, pending, indent) ==
    IF levels = <<>> \/ Last(levels) <= indent
    THEN [indent_stack |-> levels, pending_tokens |-> pending]
    ELSE PopLevels(Front(levels), Append(pending, Token("Dedent", "")), indent)

\* Lexer::process_indentation: the indent stack and the pending tokens after
process_indentation(src, lx) ==
    LET line == CountIndent(src, lx.line_start_offset, 0)
        indent == line.indent
        current_indent == Last(lx.indent_stack)
        pushed == [indent_stack |-> Append(lx.indent_stack, indent),
                   pending_tokens |-> Append(lx.pending_tokens, Token("Indent", ""))]
        same == [indent_stack |-> lx.indent_stack,
                 pending_tokens |-> lx.pending_tokens]
    IN  IF line.end = "blank" THEN same
        ELSE IF line.end = "comment"
             THEN IF indent > current_indent THEN pushed ELSE same
        ELSE IF indent > current_indent THEN pushed
        ELSE IF indent < current_indent
             THEN PopLevels(lx.indent_stack, lx.pending_tokens, indent)
        ELSE same

RECURSIVE SkipBlanks(_, _)
\* #[logos(skip r"[ \t]+")]: the offset of the next lexeme that is not a
\* space or a tab
SkipBlanks(src, pos) ==
    IF pos <= Len(src) /\ src[pos] \in {" ", "\t"} THEN SkipBlanks(src, pos + 1)
    ELSE pos

\* a token is taken from the pending ones (Vec::pop)
PopPending(lx) ==
    [lexer |-> [lx EXCEPT !.pending_tokens = Front(lx.pending_tokens)],
     token |-> Last(lx.pending_tokens)]

\* next_token at the end of input: a DEDENT for every level above the first
AtEndOfInput(lx) ==
    LET done == [lx EXCEPT !.finished = TRUE,
                           !.indent_stack = <<lx.indent_stack[1]>>,
                           !.pending_tokens =
                               lx.pending_tokens \o
                               [i \in 1..(Len(lx.indent_stack) - 1) |-> Token("Dedent", "")]]
    IN  IF done.pending_tokens # <<>> THEN PopPending(done)
        ELSE [lexer |-> done, token |-> Token("Eof", "")]

RECURSIVE Scan(_, _)
\* the `loop` of Lexer::next_token
Scan(src, lx) ==
    LET layout == process_indentation(src, lx)
        lx1 == IF lx.at_line_start
               THEN [lx EXCEPT !.at_line_start = FALSE,
                               !.indent_stack = layout.indent_stack,
                               !.pending_tokens = layout.pending_tokens]
               ELSE lx
        pos == SkipBlanks(src, lx1.offset)
    IN  IF lx.at_line_start /\ lx1.pending_tokens # <<>> THEN PopPending(lx1)
        ELSE IF pos > Len(src) THEN AtEndOfInput([lx1 EXCEPT !.offset = pos])
        ELSE LET kind == TokenKindOf(src[pos])
                 lx2 == [lx1 EXCEPT !.offset = pos + 1]
             IN  IF kind = "Newline"
                 THEN [lexer |-> [lx2 EXCEPT !.at_line_start = TRUE,
                                             !.line_start_offset = pos + 1],
                       token |-> Token("Newline", src[pos])]
                 ELSE IF kind \in {"Comment", "Err"} THEN Scan(src, lx2)
                 ELSE [lexer |-> lx2, token |-> Token(kind, src[pos])]

\* Lexer::next_token: the lexer after the call and the token returned
next_token(src, lx) ==
    IF lx.pending_tokens # <<>> THEN PopPending(lx)
    ELSE IF lx.finished THEN [lexer |-> lx, token |-> Token("Eof", "")]
    ELSE Scan(src, lx)

RECURSIVE TokenizeFrom(_, _, _)
\* the loop of Lexer::tokenize
TokenizeFrom(src, lx, tokens) ==
    LET step == next_token(src, lx) IN
    IF step.token.kind = "Eof" THEN Append(tokens, step.token)
    ELSE TokenizeFrom(src, step.lexer, Append(tokens, step.token))

\* Lexer::new(source).tokenize()
tokenize(src) == TokenizeFrom(src, LexerNew, <<>>)

\* the kinds of a token stream
Kinds(tokens) == [i \in 1..Len(tokens) |-> tokens[i].kind]

(***************************************************************************)
(* The parser (hielements-core/parser.rs).  A parsing function takes the   *)
(* token vector and self.pos and gives Ok with the position after and the  *)
(* value, or Err with the position reached and the code of the Diagnostic. *)
(* Spans are left out of the AST.                                          *)
(***************************************************************************)
POk(pos, val) == [ok |-> TRUE, pos |-> pos, val |-> val]
PErr(pos, code) == [ok |-> FALSE, pos |-> pos, code |-> code]

\* Parser::current
current(toks, pos) == IF pos <= Len(toks) THEN toks[pos] ELSE toks[Len(toks)]
\* Parser::check
check(toks, pos, kind) == current(toks, pos).kind = kind
\* Parser::is_at_end
is_at_end(toks, pos) == current(toks, pos).kind = "Eof"
\* Parser::advance: the position after
advance(toks, pos) == IF is_at_end(toks, pos) THEN pos ELSE pos + 1

\* Parser::expect
expect(toks, pos, kind) ==
    IF check(toks, pos, kind) THEN POk(advance(toks, pos), current(toks, pos))
    ELSE PErr(pos, "E007")

\* Parser::expect_newline
expect_newline(toks, pos) ==
    IF current(toks, pos).kind \in {"Newline", "Eof", "Dedent"}
    THEN POk(IF check(toks, pos, "Newline") THEN advance(toks, pos) ELSE pos, <<>>)
    ELSE PErr(pos, "E008")

RECURSIVE SkipWhile(_, _, _)
\* `while self.check(k1) || ... { self.advance(); }` for the kinds in `kinds`
SkipWhile(toks, pos, kinds) ==
    IF current(toks, pos).kind \in kinds /\ ~is_at_end(toks, pos)
    THEN SkipWhile(toks, pos + 1, kinds)
    ELSE pos

\* Parser::skip_newlines
skip_newlines(toks, pos) == SkipWhile(toks, pos, {"Newline"})
\* Parser::skip_newlines_and_indents
skip_newlines_and_indents(toks, pos) ==
    SkipWhile(toks, pos, {"Newline", "Indent", "Dedent"})
\* Parser::skip_newlines_and_comments
skip_newlines_and_comments(toks, pos) ==
    SkipWhile(toks, pos, {"Newline", "DocComment"})

RECURSIVE SkipUntil(_, _, _)
\* `while !self.is_at_end() && !self.check(k) { self.advance(); }`
SkipUntil(toks, pos, kinds) ==
    IF is_at_end(toks, pos) \/ current(toks, pos).kind \in kinds THEN pos
    ELSE SkipUntil(toks, pos + 1, kinds)

\* Parser::recover_to_newline
recover_to_newline(toks, pos) ==
    LET at == SkipUntil(toks, pos, {"Newline"}) IN
    IF check(toks, at, "Newline") THEN advance(toks, at) ELSE at

\* Parser::recover_to_element
recover_to_element(toks, pos) == SkipUntil(toks, pos, {"Element"})

\* the keywords parse_identifier takes for an identifier
SoftKeywords ==
    {"Scope", "Element", "Check", "ConnectionPoint", "Ref", "Uses", "Template",
     "Implements", "Binds", "To", "Requires", "Allows", "Forbids", "Descendant",
     "Connection", "Language", "ConnectionCheck"}

\* Parser::parse_identifier: the name
parse_identifier(toks, pos) ==
    IF current(toks, pos).kind \in {"Identifier"} \cup SoftKeywords
    THEN POk(advance(toks, pos), current(toks, pos).text)
    ELSE PErr(pos, "E004")

RECURSIVE DocLines(_, _, _)
\* the loop of Parser::parse_doc_comment
DocLines(toks, pos, doc_lines) ==
    IF check(toks, pos, "DocComment")
    THEN DocLines(toks, skip_newlines(toks, advance(toks, pos)),
                  Append(doc_lines, current(toks, pos).text))
    ELSE POk(pos, doc_lines)

\* Parser::parse_doc_comment: the lines of the doc comment (none: <<>>)
parse_doc_comment(toks, pos) == DocLines(toks, pos, <<>>)

\* Parser::unescape_string on the string lexemes
unescape_string(text) == IF text = "'s'" THEN "s" ELSE text

\* Parser::parse_string_literal
parse_string_literal(toks, pos) ==
    IF current(toks, pos).kind \in {"StringSingle", "StringDouble"}
    THEN POk(advance(toks, pos), StringLit(unescape_string(current(toks, pos).text)))
    ELSE PErr(pos, "E005")

\* Parser::parse_number_literal on the number lexemes
parse_number_literal(toks, pos) ==
    IF check(toks, pos, "Number")
    THEN POk(advance(toks, pos),
             IF current(toks, pos).text = "1" THEN NumberLit(1, 0) ELSE NumberLit(0, 0))
    ELSE PErr(pos, "E006")

\* the `?` of Rust: an Err is returned as it is, an Ok value goes on to K
Try(r, K(_)) == IF r.ok THEN K(r) ELSE r
\* `let v = ...;` followed by K
With(v, K(_)) == K(v)

RECURSIVE parse_expression(_, _)
RECURSIVE MoreExpressions(_, _, _, _)
\* `while self.check(TokenKind::Comma)` after a first expression: the
\* expressions, with a trailing comma allowed before `closing` when it is set
MoreExpressions(toks, pos, exprs, closing) ==
    IF ~check(toks, pos, "Comma") THEN POk(pos, exprs)
    ELSE With(advance(toks, pos), LAMBDA after :
         IF closing # "" /\ check(toks, after, closing) THEN POk(after, exprs)
         ELSE Try(parse_expression(toks, after), LAMBDA e :
              MoreExpressions(toks, e.pos, Append(exprs, e.val), closing)))

\* a first expression and those after commas, or none before `closing`
Expressions(toks, pos, closing, trailing) ==
    IF check(toks, pos, closing) THEN POk(pos, <<>>)
    ELSE Try(parse_expression(toks, pos), LAMBDA e :
         MoreExpressions(toks, e.pos, <<e.val>>, trailing))

\* Parser::parse_list
parse_list(toks, pos) ==
    Try(expect(toks, pos, "LBracket"), LAMBDA open :
    Try(Expressions(toks, open.pos, "RBracket", "RBracket"), LAMBDA elements :
    Try(expect(toks, elements.pos, "RBracket"), LAMBDA close :
    POk(close.pos, ListExpr(elements.val)))))

\* Parser::parse_primary
parse_primary(toks, pos) ==
    With(current(toks, pos), LAMBDA token :
    IF token.kind = "Identifier" THEN POk(advance(toks, pos), Identifier(token.text))
    ELSE IF token.kind \in {"StringSingle", "StringDouble"}
    THEN parse_string_literal(toks, pos)
    ELSE IF token.kind = "Number" THEN parse_number_literal(toks, pos)
    ELSE IF token.kind = "True" THEN POk(advance(toks, pos), BooleanLit(TRUE))
    ELSE IF token.kind = "False" THEN POk(advance(toks, pos), BooleanLit(FALSE))
    ELSE IF token.kind = "LBracket" THEN parse_list(toks, pos)
    ELSE PErr(pos, "E003"))

RECURSIVE PostfixLoop(_, _, _)
\* the `loop` of Parser::parse_postfix
PostfixLoop(toks, pos, expr) ==
    IF check(toks, pos, "Dot")
    THEN Try(parse_identifier(toks, advance(toks, pos)), LAMBDA member :
         PostfixLoop(toks, member.pos, MemberAccess(expr, member.val)))
    ELSE IF check(toks, pos, "LParen")
    THEN Try(Expressions(toks, advance(toks, pos), "RParen", ""), LAMBDA arguments :
         Try(expect(toks, arguments.pos, "RParen"), LAMBDA close :
         PostfixLoop(toks, close.pos, FunctionCall(expr, arguments.val))))
    ELSE POk(pos, expr)

\* Parser::parse_postfix
parse_postfix(toks, pos) ==
    Try(parse_primary(toks, pos), LAMBDA primary :
    PostfixLoop(toks, primary.pos, primary.val))

\* Parser::parse_expression
parse_expression(toks, pos) == parse_postfix(toks, pos)

RECURSIVE MorePath(_, _, _)
\* `while self.check(TokenKind::Dot) { self.advance(); path.push(...) }`
MorePath(toks, pos, path) ==
    IF ~check(toks, pos, "Dot") THEN POk(pos, path)
    ELSE Try(parse_identifier(toks, advance(toks, pos)), LAMBDA id :
         MorePath(toks, id.pos, Append(path, id.val)))

\* Parser::parse_qualified_path
parse_qualified_path(toks, pos) ==
    Try(parse_identifier(toks, pos), LAMBDA id : MorePath(toks, id.pos, <<id.val>>))

\* Parser::parse_type_annotation
parse_type_annotation(toks, pos) == parse_identifier(toks, pos)

\* `binds <path>`, optional
ParseBinds(toks, pos) ==
    IF check(toks, pos, "Binds")
    THEN Try(parse_qualified_path(toks, advance(toks, pos)), LAMBDA path :
         POk(path.pos, Some(path.val)))
    ELSE POk(pos, None)

\* `= <expression>`, optional
ParseOptionalExpression(toks, pos) ==
    IF check(toks, pos, "Equals")
    THEN Try(parse_expression(toks, advance(toks, pos)), LAMBDA e :
         POk(e.pos, Some(e.val)))
    ELSE POk(pos, None)

\* the end of parse_scope and parse_ref: binds, expression, newline
ParseBindsExpressionNewline(toks, pos, decl) ==
    Try(ParseBinds(toks, pos), LAMBDA binds :
    Try(ParseOptionalExpression(toks, binds.pos), LAMBDA expression :
    Try(expect_newline(toks, expression.pos), LAMBDA nl :
    POk(nl.pos, decl @@ [binds |-> binds.val, expression |-> expression.val]))))

\* the language of a scope: `<lang>` (V2), `: lang` (legacy) or none
ScopeLanguage(toks, pos) ==
    IF check(toks, pos, "LAngle")
    THEN Try(parse_identifier(toks, advance(toks, pos)), LAMBDA lang :
         Try(expect(toks, lang.pos, "RAngle"), LAMBDA close :
         POk(close.pos, Some(lang.val))))
    ELSE IF check(toks, pos, "Colon")
    THEN Try(parse_identifier(toks, advance(toks, pos)), LAMBDA lang :
         POk(lang.pos, Some(lang.val)))
    ELSE POk(pos, None)

\* Parser::parse_scope
parse_scope(toks, pos) ==
    Try(expect(toks, pos, "Scope"), LAMBDA kw :
    Try(parse_identifier(toks, kw.pos), LAMBDA name :
    Try(ScopeLanguage(toks, name.pos), LAMBDA language :
    ParseBindsExpressionNewline(toks, language.pos,
        [name |-> name.val, language |-> language.val]))))

\* Parser::parse_ref
parse_ref(toks, pos) ==
    Try(IF check(toks, pos, "Ref") THEN POk(advance(toks, pos), <<>>)
        ELSE expect(toks, pos, "ConnectionPoint"), LAMBDA kw :
    Try(parse_identifier(toks, kw.pos), LAMBDA name :
    Try(expect(toks, name.pos, "Colon"), LAMBDA colon :
    Try(parse_type_annotation(toks, colon.pos), LAMBDA type_annotation :
    ParseBindsExpressionNewline(toks, type_annotation.pos,
        [name |-> name.val, type_annotation |-> type_annotation.val])))))

\* Parser::parse_uses
parse_uses(toks, pos) ==
    IF ~check(toks, pos, "Identifier") THEN PErr(pos, "E016")
    ELSE Try(parse_identifier(toks, pos), LAMBDA src :
         Try(expect(toks, src.pos, "Uses"), LAMBDA kw :
         Try(parse_qualified_path(toks, kw.pos), LAMBDA target :
         Try(expect_newline(toks, target.pos), LAMBDA nl :
         POk(nl.pos, [source |-> src.val, target |-> target.val])))))

\* Parser::parse_check
parse_check(toks, pos) ==
    Try(expect(toks, pos, "Check"), LAMBDA kw :
    Try(parse_expression(toks, kw.pos), LAMBDA e :
    Try(expect_newline(toks, e.pos), LAMBDA nl :
    POk(nl.pos, [expression |-> e.val]))))

\* Parser::try_parse_template_binding
try_parse_template_binding(toks, pos) ==
    Try(parse_identifier(toks, pos), LAMBDA first :
    IF ~check(toks, first.pos, "Dot") THEN PErr(pos, "E003")
    ELSE Try(MorePath(toks, first.pos, <<first.val>>), LAMBDA path :
         IF Len(path.val) < 2 \/ ~check(toks, path.pos, "Equals")
         THEN PErr(pos, "E003")
         ELSE Try(parse_expression(toks, advance(toks, path.pos)), LAMBDA e :
              Try(expect_newline(toks, e.pos), LAMBDA nl :
              POk(nl.pos, [path |-> path.val, expression |-> e.val])))))

RECURSIVE PatternLoop(_, _, _)
\* the `while self.check(TokenKind::Dot)` of Parser::parse_connection_pattern
PatternLoop(toks, pos, path) ==
    IF ~check(toks, pos, "Dot") THEN POk(pos, [path |-> path, wildcard |-> FALSE])
    ELSE With(advance(toks, pos), LAMBDA after :
         IF check(toks, after, "Star")
         THEN POk(advance(toks, after), [path |-> path, wildcard |-> TRUE])
         ELSE IF check(toks, after, "Identifier")
         THEN PatternLoop(toks, advance(toks, after),
                          Append(path, current(toks, after).text))
         ELSE POk(after, [path |-> path, wildcard |-> FALSE]))

\* Parser::parse_connection_pattern
parse_connection_pattern(toks, pos) ==
    Try(parse_identifier(toks, pos), LAMBDA id : PatternLoop(toks, id.pos, <<id.val>>))

\* a member pushed on one of the vectors of a body under construction
Push(body, field, member) == [body EXCEPT ![field] = Append(@, member)]

\* the end of a block in the syntax used
AtBlockEnd(toks, pos, use_braces) ==
    \/ check(toks, pos, IF use_braces THEN "RBrace" ELSE "Dedent")
    \/ is_at_end(toks, pos)

\* `{`, or `:` and INDENT: the position after and whether braces are used
BlockStart(toks, pos) ==
    IF check(toks, pos, "LBrace")
    THEN POk(skip_newlines_and_indents(toks, advance(toks, pos)), TRUE)
    ELSE Try(expect(toks, pos, "Colon"), LAMBDA colon :
         Try(expect(toks, skip_newlines(toks, colon.pos), "Indent"), LAMBDA indent :
         POk(indent.pos, FALSE)))

\* "Consume end of block": the position after
BlockEnd(toks, pos, use_braces) ==
    IF check(toks, pos, IF use_braces THEN "RBrace" ELSE "Dedent")
    THEN advance(toks, pos) ELSE pos

RECURSIVE ImplementsLoop(_, _, _)
\* the `loop` after `implements` in parse_element_with_context
ImplementsLoop(toks, pos, implements) ==
    Try(parse_identifier(toks, pos), LAMBDA template_name :
    IF ~check(toks, template_name.pos, "Comma")
    THEN POk(template_name.pos, Append(implements, template_name.val))
    ELSE ImplementsLoop(toks, advance(toks, template_name.pos),
                        Append(implements, template_name.val)))

\* the refs looked at before the scopes
FirstUnboundedRefsFirst(body) ==
    IF \E i \in 1..Len(body.refs) : ~body.refs[i].expression.some THEN "E015"
    ELSE IF \E i \in 1..Len(body.scopes) : ~body.scopes[i].expression.some THEN "E014"
    ELSE ""

\* the first scope, then the first ref, without expression
FirstUnbounded(body) ==
    IF \E i \in 1..Len(body.scopes) : ~body.scopes[i].expression.some THEN "E014"
    ELSE IF \E i \in 1..Len(body.refs) : ~body.refs[i].expression.some THEN "E015"
    ELSE ""

EmptyElementBody ==
    [scopes |-> <<>>, refs |-> <<>>, uses |-> <<>>, checks |-> <<>>,
     template_bindings |-> <<>>, children |-> <<>>]

\* the member is taken for an unknown one
RequirementInElementUnknown(toks, pos) == PErr(pos, "E002")

\* `requires`, `allows` or `forbids` met in the body of an element
RequirementInElement(toks, pos) == PErr(pos, "E012")

RECURSIVE parse_element_with_context(_, _, _, _)
RECURSIVE ElementBody(_, _, _, _, _)
\* the member `loop` of parse_element_with_context
ElementBody(toks, pos, use_braces, in_template, body) ==
    LET Member(field, r) ==
            Try(r, LAMBDA m : ElementBody(toks, m.pos, use_braces, in_template,
                                          Push(body, field, m.val)))
    IN
    With(IF use_braces THEN skip_newlines_and_indents(toks, pos)
         ELSE skip_newlines(toks, pos), LAMBDA at :
    IF AtBlockEnd(toks, at, use_braces) THEN POk(at, body)
    ELSE
    With(parse_doc_comment(toks, at), LAMBDA child_doc :
    With(child_doc.pos, LAMBDA here :
    With(current(toks, here).kind, LAMBDA kind :
        IF kind = "Scope" THEN Member("scopes", parse_scope(toks, here))
        ELSE IF kind \in {"Ref", "ConnectionPoint"}
        THEN Member("refs", parse_ref(toks, here))
        ELSE IF kind = "Uses" THEN Member("uses", parse_uses(toks, here))
        ELSE IF kind = "Check" THEN Member("checks", parse_check(toks, here))
        ELSE IF kind = "Element"
        THEN Member("children",
                    parse_element_with_context(toks, here, child_doc.val, in_template))
        ELSE IF kind \in {"Requires", "Allows", "Forbids"}
        THEN RequirementInElement(toks, here)
        ELSE IF kind = "Identifier"
        THEN IF check(toks, advance(toks, here), "Uses")
             THEN Member("uses", parse_uses(toks, here))
             ELSE IF check(toks, advance(toks, here), "Dot")
             THEN Member("template_bindings", try_parse_template_binding(toks, here))
             ELSE PErr(here, "E002")
        ELSE IF AtBlockEnd(toks, here, use_braces) THEN POk(here, body)
        ELSE PErr(here, "E002")))))

\* Parser::parse_element_with_context
parse_element_with_context(toks, pos, doc_comment, in_template) ==
    Try(expect(toks, pos, "Element"), LAMBDA kw :
    Try(parse_identifier(toks, kw.pos), LAMBDA name :
    Try(IF check(toks, name.pos, "Implements")
        THEN ImplementsLoop(toks, advance(toks, name.pos), <<>>)
        ELSE POk(name.pos, <<>>), LAMBDA implements :
    Try(BlockStart(toks, implements.pos), LAMBDA start :
    Try(ElementBody(toks, start.pos, start.val, in_template, EmptyElementBody),
        LAMBDA body :
    With(BlockEnd(toks, body.pos, start.val), LAMBDA after :
    With(IF in_template THEN "" ELSE FirstUnbounded(body.val), LAMBDA unbounded :
    IF unbounded # "" THEN PErr(after, unbounded)
    ELSE POk(after, [doc_comment |-> doc_comment, name |-> name.val,
                     implements |-> implements.val,
                     component_requirements |-> <<>>] @@ body.val))))))))

\* Parser::parse_element
parse_element(toks, pos, doc_comment) ==
    parse_element_with_context(toks, pos, doc_comment, FALSE)

EmptyComponentBody ==
    [scopes |-> <<>>, refs |-> <<>>, uses |-> <<>>, checks |-> <<>>,
     children |-> <<>>]

RECURSIVE ComponentBody(_, _, _)
\* the member `loop` of parse_element_component_spec
ComponentBody(toks, pos, body) ==
    LET Member(field, r) ==
            Try(r, LAMBDA m : ComponentBody(toks, m.pos, Push(body, field, m.val)))
    IN
    With(skip_newlines(toks, pos), LAMBDA at :
    IF check(toks, at, "Dedent") \/ is_at_end(toks, at) THEN POk(at, body)
    ELSE
    With(parse_doc_comment(toks, at), LAMBDA child_doc :
    With(child_doc.pos, LAMBDA here :
    With(current(toks, here).kind, LAMBDA kind :
        IF kind = "Scope" THEN Member("scopes", parse_scope(toks, here))
        ELSE IF kind \in {"Ref", "ConnectionPoint"}
        THEN Member("refs", parse_ref(toks, here))
        ELSE IF kind = "Check" THEN Member("checks", parse_check(toks, here))
        ELSE IF kind = "Element"
        THEN Member("children", parse_element(toks, here, child_doc.val))
        ELSE IF kind \in {"Requires", "Allows", "Forbids"} THEN PErr(here, "E012")
        ELSE POk(here, body)))))

\* the optional `: Type` of parse_element_component_spec, told from the
\* start of a body by looking ahead
ComponentTypeAnnotation(toks, pos) ==
    IF ~check(toks, pos, "Colon") THEN POk(pos, None)
    ELSE With(advance(toks, pos), LAMBDA after :
         IF ~check(toks, after, "Identifier") THEN POk(pos, None)
         ELSE With(parse_identifier(toks, after), LAMBDA id :
              IF current(toks, id.pos).kind \in {"Implements", "Newline", "Colon"}
              THEN POk(id.pos, Some(id.val))
              ELSE POk(pos, None)))

\* the optional `implements T` of parse_element_component_spec
ComponentImplements(toks, pos) ==
    IF check(toks, pos, "Implements")
    THEN Try(parse_identifier(toks, advance(toks, pos)), LAMBDA id :
         POk(id.pos, Some(id.val)))
    ELSE POk(pos, None)

\* the optional inlined body of parse_element_component_spec: the Element
\* built from it
ComponentInlinedBody(toks, pos, name, implements) ==
    IF check(toks, pos, "Colon")
    THEN With(skip_newlines(toks, advance(toks, pos)), LAMBDA at :
         IF check(toks, at, "Indent")
         THEN Try(ComponentBody(toks, advance(toks, at), EmptyComponentBody),
                  LAMBDA members :
              POk(BlockEnd(toks, members.pos, FALSE),
                  Some([doc_comment |-> <<>>, name |-> name,
                        implements |-> IF implements.some THEN <<implements.v>>
                                       ELSE <<>>,
                        template_bindings |-> <<>>,
                        component_requirements |-> <<>>] @@ members.val)))
         ELSE POk(at, None))
    ELSE Try(expect_newline(toks, pos), LAMBDA nl : POk(nl.pos, None))

\* Parser::parse_element_component_spec
parse_element_component_spec(toks, pos) ==
    Try(parse_identifier(toks, advance(toks, pos)), LAMBDA name :
    Try(ComponentTypeAnnotation(toks, name.pos), LAMBDA type_annotation :
    Try(ComponentImplements(toks, type_annotation.pos), LAMBDA implements :
    Try(ComponentInlinedBody(toks, implements.pos, name.val, implements.val),
        LAMBDA body :
    POk(body.pos, [spec |-> "Element", name |-> name.val,
                   type_annotation |-> type_annotation.val,
                   implements |-> implements.val, body |-> body.val])))))

\* Parser::parse_ref_component_spec
parse_ref_component_spec(toks, pos) ==
    Try(parse_identifier(toks, advance(toks, pos)), LAMBDA name :
    Try(expect(toks, name.pos, "Colon"), LAMBDA colon :
    Try(parse_type_annotation(toks, colon.pos), LAMBDA type_annotation :
    Try(ParseOptionalExpression(toks, type_annotation.pos), LAMBDA expression :
    Try(expect_newline(toks, expression.pos), LAMBDA nl :
    POk(nl.pos, [spec |-> "Ref", name |-> name.val,
                 type_annotation |-> type_annotation.val,
                 expression |-> expression.val]))))))

\* a component that is a name and a newline: `implements T`, `language L`
NamedComponent(toks, pos, Build(_)) ==
    Try(parse_identifier(toks, pos), LAMBDA id :
    Try(expect_newline(toks, id.pos), LAMBDA nl :
    POk(nl.pos, Build(id.val))))

\* the ComponentSpec after `requires|allows|forbids [descendant]`
ComponentSpec(toks, here) ==
    LET Wrap(spec, r) == Try(r, LAMBDA d : POk(d.pos, [spec |-> spec, decl |-> d.val]))
    IN
    With(current(toks, here).kind, LAMBDA kind :
    IF kind = "Scope" THEN Wrap("Scope", parse_scope(toks, here))
    ELSE IF kind = "Check" THEN Wrap("Check", parse_check(toks, here))
    ELSE IF kind = "Element" THEN parse_element_component_spec(toks, here)
    ELSE IF kind = "Connection"
    THEN With(advance(toks, here), LAMBDA c :
         Try(parse_connection_pattern(toks,
                IF check(toks, c, "To") THEN advance(toks, c) ELSE c), LAMBDA pattern :
         Try(expect_newline(toks, pattern.pos), LAMBDA nl :
         POk(nl.pos, [spec |-> "Connection", decl |-> pattern.val]))))
    ELSE IF kind \in {"Ref", "ConnectionPoint"}
    THEN parse_ref_component_spec(toks, here)
    ELSE IF kind = "Implements"
    THEN NamedComponent(toks, advance(toks, here),
            LAMBDA t : [spec |-> "Element", name |-> "_anonymous",
                        type_annotation |-> None, implements |-> Some(t),
                        body |-> None])
    ELSE IF kind = "Language"
    THEN NamedComponent(toks, advance(toks, here),
            LAMBDA l : [spec |-> "Language", decl |-> l])
    ELSE PErr(here, "E011"))

\* Parser::parse_component_requirement
parse_component_requirement(toks, pos, action) ==
    With(advance(toks, pos), LAMBDA after :
    With(check(toks, after, "Descendant"), LAMBDA is_descendant :
    Try(ComponentSpec(toks, IF is_descendant THEN advance(toks, after) ELSE after),
        LAMBDA component :
    POk(component.pos, [action |-> action, is_descendant |-> is_descendant,
                        component |-> component.val]))))

EmptyTemplateBody ==
    [scopes |-> <<>>, refs |-> <<>>, checks |-> <<>>,
     component_requirements |-> <<>>, elements |-> <<>>]

RECURSIVE TemplateBody(_, _, _, _)
\* the member `loop` of parse_template
TemplateBody(toks, pos, use_braces, body) ==
    LET Member(field, r) ==
            Try(r, LAMBDA m : TemplateBody(toks, m.pos, use_braces,
                                           Push(body, field, m.val)))
    IN
    With(IF use_braces THEN skip_newlines_and_indents(toks, pos)
         ELSE skip_newlines(toks, pos), LAMBDA at :
    IF AtBlockEnd(toks, at, use_braces) THEN POk(at, body)
    ELSE
    With(parse_doc_comment(toks, at), LAMBDA child_doc :
    With(child_doc.pos, LAMBDA here :
    With(current(toks, here).kind, LAMBDA kind :
        IF kind = "Scope" THEN Member("scopes", parse_scope(toks, here))
        ELSE IF kind \in {"Ref", "ConnectionPoint"}
        THEN Member("refs", parse_ref(toks, here))
        ELSE IF kind = "Check" THEN Member("checks", parse_check(toks, here))
        ELSE IF kind = "Element"
        THEN Member("elements",
                    parse_element_with_context(toks, here, child_doc.val, TRUE))
        ELSE IF kind \in {"Requires", "Allows", "Forbids"}
        THEN Member("component_requirements",
                    parse_component_requirement(toks, here, kind))
        ELSE IF AtBlockEnd(toks, here, use_braces) THEN POk(here, body)
        ELSE PErr(here, "E002")))))

\* Parser::parse_template
parse_template(toks, pos, doc_comment) ==
    Try(expect(toks, pos, "Template"), LAMBDA kw :
    Try(parse_identifier(toks, kw.pos), LAMBDA name :
    Try(BlockStart(toks, name.pos), LAMBDA start :
    Try(TemplateBody(toks, start.pos, start.val, EmptyTemplateBody), LAMBDA body :
    POk(BlockEnd(toks, body.pos, start.val),
        [doc_comment |-> doc_comment, name |-> name.val] @@ body.val)))))

\* Parser::parse_import_path
parse_import_path(toks, pos) ==
    IF current(toks, pos).kind \in {"StringSingle", "StringDouble"}
    THEN Try(parse_string_literal(toks, pos), LAMBDA string :
         POk(string.pos, [path |-> "String", string |-> string.val]))
    ELSE Try(parse_qualified_path(toks, pos), LAMBDA parts :
         POk(parts.pos, [path |-> "Identifier", parts |-> parts.val]))

RECURSIVE MoreNames(_, _, _)
\* `while self.check(TokenKind::Comma) { self.advance(); push(identifier) }`
MoreNames(toks, pos, names) ==
    IF ~check(toks, pos, "Comma") THEN POk(pos, names)
    ELSE Try(parse_identifier(toks, advance(toks, pos)), LAMBDA id :
         MoreNames(toks, id.pos, Append(names, id.val)))

\* Parser::parse_import
parse_import(toks, pos) ==
    IF check(toks, pos, "From")
    THEN Try(parse_import_path(toks, advance(toks, pos)), LAMBDA path :
         Try(expect(toks, path.pos, "Import"), LAMBDA kw :
         Try(parse_identifier(toks, kw.pos), LAMBDA first :
         Try(MoreNames(toks, first.pos, <<first.val>>), LAMBDA selective :
         Try(expect_newline(toks, selective.pos), LAMBDA nl :
         POk(nl.pos, [path |-> path.val, alias |-> None,
                      selective |-> selective.val]))))))
    ELSE Try(expect(toks, pos, "Import"), LAMBDA kw :
         Try(parse_import_path(toks, kw.pos), LAMBDA path :
         Try(IF check(toks, path.pos, "As")
             THEN Try(parse_identifier(toks, advance(toks, path.pos)), LAMBDA id :
                      POk(id.pos, Some(id.val)))
             ELSE POk(path.pos, None), LAMBDA alias :
         Try(expect_newline(toks, alias.pos), LAMBDA nl :
         POk(nl.pos, [path |-> path.val, alias |-> alias.val,
                      selective |-> <<>>])))))

\* Parser::parse_connection_check_parameter
parse_connection_check_parameter(toks, pos) ==
    Try(parse_identifier(toks, pos), LAMBDA name :
    Try(expect(toks, name.pos, "Colon"), LAMBDA colon :
    Try(expect(toks, colon.pos, "Scope"), LAMBDA kw :
    Try(expect(toks, kw.pos, "LBracket"), LAMBDA open :
    Try(expect(toks, open.pos, "RBracket"), LAMBDA close :
    POk(close.pos, name.val))))))

RECURSIVE MoreParameters(_, _, _)
\* the parameters after the first, a trailing comma allowed
MoreParameters(toks, pos, parameters) ==
    IF ~check(toks, pos, "Comma") THEN POk(pos, parameters)
    ELSE With(advance(toks, pos), LAMBDA after :
         IF check(toks, after, "RParen") THEN POk(after, parameters)
         ELSE Try(parse_connection_check_parameter(toks, after), LAMBDA q :
              MoreParameters(toks, q.pos, Append(parameters, q.val))))

\* the parameters of a connection_check, or none before `)`
Parameters(toks, pos) ==
    IF check(toks, pos, "RParen") THEN POk(pos, <<>>)
    ELSE Try(parse_connection_check_parameter(toks, pos), LAMBDA q :
         MoreParameters(toks, q.pos, <<q.val>>))

\* Parser::parse_connection_check
parse_connection_check(toks, pos) ==
    Try(expect(toks, pos, "ConnectionCheck"), LAMBDA kw :
    Try(parse_identifier(toks, kw.pos), LAMBDA name :
    Try(expect(toks, name.pos, "LParen"), LAMBDA open :
    Try(Parameters(toks, open.pos), LAMBDA parameters :
    Try(expect(toks, parameters.pos, "RParen"), LAMBDA close :
    Try(expect(toks, close.pos, "Colon"), LAMBDA colon :
    Try(expect(toks, skip_newlines(toks, colon.pos), "Indent"), LAMBDA indent :
    Try(parse_expression(toks, skip_newlines(toks, indent.pos)), LAMBDA body :
    Try(expect_newline(toks, body.pos), LAMBDA nl :
    POk(BlockEnd(toks, skip_newlines(toks, nl.pos), FALSE),
        [name |-> name.val, parameters |-> parameters.val,
         body |-> body.val]))))))))))

RECURSIVE LanguageBody(_, _, _)
\* the `loop` of parse_language_declaration
LanguageBody(toks, pos, connection_checks) ==
    With(parse_doc_comment(toks, skip_newlines(toks, pos)).pos, LAMBDA at :
    IF check(toks, at, "Dedent") \/ is_at_end(toks, at) THEN POk(at, connection_checks)
    ELSE IF check(toks, at, "ConnectionCheck")
    THEN Try(parse_connection_check(toks, at), LAMBDA c :
         LanguageBody(toks, c.pos, Append(connection_checks, c.val)))
    ELSE PErr(at, "E013"))

\* Parser::parse_language_declaration
parse_language_declaration(toks, pos) ==
    Try(expect(toks, pos, "Language"), LAMBDA kw :
    Try(parse_identifier(toks, kw.pos), LAMBDA name :
    IF check(toks, name.pos, "Colon")
    THEN Try(expect(toks, skip_newlines(toks, advance(toks, name.pos)), "Indent"),
             LAMBDA indent :
         Try(LanguageBody(toks, indent.pos, <<>>), LAMBDA body :
         POk(BlockEnd(toks, body.pos, FALSE),
             [name |-> name.val, connection_checks |-> body.val])))
    ELSE Try(expect_newline(toks, name.pos), LAMBDA nl :
         POk(nl.pos, [name |-> name.val, connection_checks |-> <<>>]))))

(***************************************************************************)
(* The files the parser is given: declarations written out as text.  A     *)
(* declaration is a line or a block; a block is written in one of the      *)
(* block syntaxes, one level of indentation being one space.               *)
(***************************************************************************)
Line(kind, lex) == [m |-> kind, lex |-> lex]
Block(kind, name, layout, body) ==
    [m |-> kind, name |-> name, layout |-> layout, body |-> body]

IsBlock(member) == member.m \in {"element", "template", "requires_element"}

\* n spaces
Spaces(n) == [i \in 1..n |-> " "]

\* the first line of a block, without what opens the block
Header(block) ==
    IF block.m = "requires_element" THEN <<"requires", "element", block.name>>
    ELSE <<block.m, block.name>>

RECURSIVE Render(_, _)
\* the text of the members, written at the indentation `indent`.  Layouts:
\* "indent": `:` and an indented body; "brace": `{`, an indented body, `}`
\* under the first line; "brace_low": the same with `}` at column 0;
\* "brace_flat": `{`, the body at column 0, `}` under the first line.
Render(members, indent) ==
    IF members = <<>> THEN <<>>
    ELSE LET member == Head(members)
             text ==
                IF ~IsBlock(member)
                THEN Spaces(indent) \o member.lex \o <<"\n">>
                ELSE IF member.layout = "indent"
                THEN Spaces(indent) \o Header(member) \o <<":", "\n">>
                        \o Render(member.body, indent + 1)
                ELSE Spaces(indent) \o Header(member) \o <<"{", "\n">>
                        \o Render(member.body,
                                  IF member.layout = "brace_flat" THEN 0 ELSE indent + 1)
                        \o Spaces(IF member.layout = "brace_low" THEN 0 ELSE indent)
                        \o <<"}", "\n">>
         IN  text \o Render(Tail(members), indent)

\* the lines the documents are written from
ScopeBound(name) == Line("scope", <<"scope", name, "=", "f">>)
ScopeUnbounded(name) == Line("scope?", <<"scope", name>>)
RefBound == Line("ref", <<"ref", "r", ":", "T", "=", "f">>)
RefUnbounded == Line("ref?", <<"ref", "r", ":", "T">>)
CheckLine == Line("check", <<"check", "f", "(", ")">>)
RequirementLine == Line("requirement", <<"requires", "scope", "y">>)
AllowsLine == Line("requirement", <<"allows", "connection", "to", "a", ".", "*">>)
ForbidsLine == Line("requirement", <<"forbids", "language", "py">>)
JunkLine == Line("junk", <<"=">>)
LanguageLine == Line("language", <<"language", "py">>)
ImportLine == Line("import", <<"import", "lib">>)

Layouts == {"indent", "brace", "brace_low", "brace_flat"}

\* the bodies of a top-level element whose nested element is written in `layout`
ElementBodies(layout) ==
    {<<ScopeBound("x")>>,
     <<ScopeBound("x"), RefBound, CheckLine>>,
     <<ScopeUnbounded("x")>>,
     <<RefUnbounded>>,
     <<RefUnbounded, ScopeUnbounded("x")>>,
     <<ScopeUnbounded("x"), JunkLine>>,
     <<RequirementLine>>,
     <<ForbidsLine, ScopeBound("x")>>,
     <<Block("element", "b", layout, <<ScopeUnbounded("y")>>), AllowsLine>>,
     <<RequirementLine, Block("element", "b", layout, <<ScopeBound("y")>>)>>}
    \cup {<<Block("element", "b", layout, body), CheckLine>> :
            body \in {<<ScopeBound("y")>>, <<ScopeUnbounded("y")>>,
                      <<RefUnbounded>>, <<RequirementLine>>}}

\* the bodies of a top-level template whose nested element is written in `layout`
TemplateBodies(layout) ==
    {<<ScopeUnbounded("x"), RefUnbounded, RequirementLine>>,
     <<AllowsLine, ForbidsLine, ScopeBound("x")>>,
     <<Block("element", "b", layout, <<ScopeUnbounded("y"), RefUnbounded>>)>>,
     <<Block("element", "b", layout,
             <<Block("element", "d", "brace", <<ScopeUnbounded("z")>>)>>)>>,
     <<Block("element", "b", layout, <<RequirementLine>>)>>,
     <<Block("requires_element", "e", "indent", <<ScopeUnbounded("z"), RefUnbounded>>)>>,
     <<Block("requires_element", "e", "indent",
             <<Block("element", "k", layout, <<ScopeUnbounded("y")>>)>>)>>,
     <<Block("requires_element", "e", "indent", <<RequirementLine>>)>>}

\* the first declaration of a document
FirstDeclarations ==
    UNION {{Block("element", "a", outer, body) : body \in ElementBodies(inner)}
            \cup {Block("template", "t", outer, body) : body \in TemplateBodies(inner)} :
           outer \in Layouts, inner \in Layouts}

\* what follows it at top level
NextDeclarations ==
    {<<>>,
     <<Block("element", "c", "indent", <<ScopeBound("w")>>)>>,
     <<Block("element", "c", "brace", <<ScopeBound("w")>>)>>,
     <<Block("template", "u", "indent", <<ScopeUnbounded("w")>>)>>,
     <<LanguageLine>>,
     <<JunkLine>>}

\* the documents with an import before the declarations
ImportingDocuments ==
    {<<ImportLine, Block("element", "a", "indent", <<ScopeBound("x")>>)>>,
     <<Line("import", <<"import">>), Block("element", "a", "indent", <<ScopeBound("x")>>)>>}

Documents ==
    {<<first>> \o following : first \in FirstDeclarations, following \in NextDeclarations}
        \cup ImportingDocuments

RECURSIVE Relayout(_, _)
\* the same declarations with every element and template block written in
\* the block syntax `layout`
Relayout(members, layout) ==
    [i \in 1..Len(members) |->
        IF ~IsBlock(members[i]) THEN members[i]
        ELSE [members[i] EXCEPT
                !.layout = IF members[i].m = "requires_element" THEN @ ELSE layout,
                !.body = Relayout(@, layout)]]

(***************************************************************************)
(* Parser::new and Parser::parse, one action for each turn of its loops.   *)
(***************************************************************************)
\* no run of the interpreter is going on
NoRun ==
    /\ program = <<>>
    /\ options = <<>>
    /\ pc = "off"
    /\ exitCode = -1
    /\ validation = [done |-> FALSE]
    /\ scopes = <<>>
    /\ diagnostics = <<>>
    /\ current_element_path = <<>>
    /\ output = EmptyOutput
    /\ stack = <<>>
    /\ run = 0
    /\ fresh = TRUE
    /\ history = <<>>
    /\ previous = [valid |-> FALSE]
    /\ NoValidation

ParserInit ==
    /\ NoRun
    /\ document \in Documents
    /\ source = Render(document, 0)
    /\ lexer = [phase |-> "idle"]
    /\ lexed = <<>>
    /\ parser = [phase |-> "idle"]
    /\ parsed = <<>>
    /\ firstParse = [valid |-> FALSE]
    /\ TransportIdle

EmptyProgram ==
    [imports |-> <<>>, languages |-> <<>>, templates |-> <<>>, elements |-> <<>>]

\* Parser::new, and parse up to its first loop
ParserNew ==
    /\ parser.phase = "idle"
    /\ source # <<>>
    /\ LET tokens == tokenize(source) IN
       parser' = [phase |-> "imports", tokens |-> tokens,
                  pos |-> skip_newlines_and_comments(tokens, 1),
                  diagnostics |-> <<>>]
    /\ parsed' = EmptyProgram
    /\ UNCHANGED <<runVars, transportVars, validateVars, source, lexer, lexed, document, firstParse>>

AtImport ==
    /\ parser.phase = "imports"
    /\ current(parser.tokens, parser.pos).kind \in {"Import", "From"}

\* one turn of the import loop
ParseImport ==
    /\ AtImport
    /\ LET toks == parser.tokens
           r == parse_import(toks, parser.pos)
       IN  IF r.ok
           THEN /\ parsed' = [parsed EXCEPT !.imports = Append(@, r.val)]
                /\ parser' = [parser EXCEPT
                                !.pos = skip_newlines_and_comments(toks, r.pos)]
           ELSE /\ parsed' = parsed
                /\ parser' = [parser EXCEPT
                                !.diagnostics = Append(@, r.code),
                                !.pos = skip_newlines_and_comments(toks,
                                            recover_to_newline(toks, r.pos))]
    /\ UNCHANGED <<runVars, transportVars, validateVars, source, lexer, lexed, document, firstParse>>

\* a declaration loop that a closing brace ends as well
InDeclarationsUntilBrace ==
    /\ parser.phase \in {"imports", "declarations"}
    /\ ~AtImport
    /\ ~is_at_end(parser.tokens, parser.pos)
    /\ ~is_at_end(parser.tokens, skip_newlines(parser.tokens, parser.pos))
    /\ ~check(parser.tokens, skip_newlines(parser.tokens, parser.pos), "RBrace")

\* the declaration loop is where the parser is, past the imports
InDeclarations ==
    /\ parser.phase \in {"imports", "declarations"}
    /\ ~AtImport
    /\ ~is_at_end(parser.tokens, parser.pos)
    /\ ~is_at_end(parser.tokens, skip_newlines(parser.tokens, parser.pos))

\* the doc comment read at the start of a turn of the declaration loop
DeclarationDoc == parse_doc_comment(parser.tokens, skip_newlines(parser.tokens, parser.pos))

\* a turn of the declaration loop that finds `kind` after the doc comment
DeclarationIs(kind) ==
    /\ InDeclarations
    /\ check(parser.tokens, DeclarationDoc.pos, kind)

\* what a turn does with the outcome `r` of a declaration parser: push the
\* declaration, or push the diagnostic and recover
Declared(r, field, recovered) ==
    /\ IF r.ok
       THEN /\ parsed' = [parsed EXCEPT ![field] = Append(@, r.val)]
            /\ parser' = [parser EXCEPT !.phase = "declarations", !.pos = r.pos]
       ELSE /\ parsed' = parsed
            /\ parser' = [parser EXCEPT !.phase = "declarations",
                                        !.diagnostics = Append(@, r.code),
                                        !.pos = recovered]
    /\ UNCHANGED <<runVars, transportVars, validateVars, source, lexer, lexed, document, firstParse>>

ParseTemplateDeclaration ==
    /\ DeclarationIs("Template")
    /\ LET r == parse_template(parser.tokens, DeclarationDoc.pos, DeclarationDoc.val)
       IN  Declared(r, "templates", recover_to_element(parser.tokens, r.pos))

ParseElementDeclaration ==
    /\ DeclarationIs("Element")
    /\ LET r == parse_element(parser.tokens, DeclarationDoc.pos, DeclarationDoc.val)
       IN  Declared(r, "elements", recover_to_element(parser.tokens, r.pos))

ParseLanguageDeclaration ==
    /\ DeclarationIs("Language")
    /\ LET r == parse_language_declaration(parser.tokens, DeclarationDoc.pos)
       IN  Declared(r, "languages", recover_to_newline(parser.tokens, r.pos))

\* any other token: E001, and the token is skipped (at the end of the input
\* after a doc comment the turn does nothing and the loop ends)
UnexpectedToken ==
    /\ InDeclarations
    /\ current(parser.tokens, DeclarationDoc.pos).kind \notin {"Template", "Element", "Language"}
    /\ parsed' = parsed
    /\ parser' = [parser EXCEPT
                    !.phase = "declarations",
                    !.diagnostics = IF is_at_end(parser.tokens, DeclarationDoc.pos)
                                    THEN @ ELSE Append(@, "E001"),
                    !.pos = advance(parser.tokens, DeclarationDoc.pos)]
    /\ UNCHANGED <<runVars, transportVars, validateVars, source, lexer, lexed, document, firstParse>>

\* the loop ends: the Program and the diagnostics are returned
ParseReturn ==
    /\ parser.phase \in {"imports", "declarations"}
    /\ ~AtImport
    /\ ~InDeclarations
    /\ parser' = [parser EXCEPT !.phase = "done",
                                !.pos = skip_newlines(parser.tokens, parser.pos)]
    /\ UNCHANGED <<runVars, transportVars, validateVars, source, lexer, lexed, parsed, document, firstParse>>

\* the same declarations are written again with every block in one block
\* syntax, and given to a new Parser
RewriteBlocks ==
    /\ parser.phase = "done"
    /\ ~firstParse.valid
    /\ \E layout \in {"indent", "brace"} :
        /\ Relayout(document, layout) # document
        /\ document' = Relayout(document, layout)
    /\ source' = Render(document', 0)
    /\ firstParse' = [valid |-> TRUE, document |-> document, program |-> parsed,
                      diagnostics |-> parser.diagnostics]
    /\ parser' = [phase |-> "idle"]
    /\ parsed' = <<>>
    /\ UNCHANGED <<runVars, transportVars, validateVars, lexer, lexed>>

ParserNext ==
    \/ ParserNew
    \/ ParseImport
    \/ ParseTemplateDeclaration
    \/ ParseElementDeclaration
    \/ ParseLanguageDeclaration
    \/ UnexpectedToken
    \/ ParseReturn
    \/ RewriteBlocks

ParserSpec == ParserInit /\ [][ParserNext]_vars

(***************************************************************************)
(* Properties of the parser.                                               *)
(***************************************************************************)
ParseDone == parser.phase = "done"

RECURSIVE ElementsIn(_)
\* the element blocks among the members and inside them, at any depth
ElementsIn(members) ==
    UNION {IF ~IsBlock(members[i]) THEN {}
           ELSE (IF members[i].m = "element" THEN {members[i]} ELSE {})
                    \cup ElementsIn(members[i].body) :
           i \in 1..Len(members)}

\* the member lines of a block of the kind `kind`
HasLine(block, kind) == \E i \in 1..Len(block.body) : block.body[i].m = kind

\* the elements of the document that are not nested inside a template
RegularElements ==
    ElementsIn(SelectSeq(document, LAMBDA d : IsBlock(d) /\ d.m = "element"))

\* every block is written with `:` or with `{`, lines indented by level
\* and `}` under the first line of its block
PlainLayout ==
    \A d \in {document[i] : i \in 1..Len(document)} :
        IsBlock(d) => \A b \in ElementsIn(<<d>>) \cup {d} : b.layout \in {"indent", "brace"}

\* the codes of the diagnostics reported
Reported == {parser.diagnostics[i] : i \in 1..Len(parser.diagnostics)}

\* C11 as stated: for every element that is not nested inside a template,
\* a scope without expression makes parsing report E014 and a ref without
\* expression makes it report E015
UnboundedRejectedAsStated ==
    ParseDone /\ PlainLayout =>
        \A e \in RegularElements :
            /\ HasLine(e, "scope?") => "E014" \in Reported
            /\ HasLine(e, "ref?") => "E015" \in Reported

RECURSIVE FirstErrorIn(_, _)
\* the error that ends the parsing of a block, the first in the order of
\* the text.  `context` is "element" for an element outside templates,
\* "nested" for one the parser takes for nested in a template, "template"
\* for a template and "inlined" for the body of a `requires element NAME:`.
\* In an "element" a scope (E014) or else a ref (E015) without expression
\* counts at the end of the block.
FirstErrorIn(block, context) ==
    LET Inside(member) ==
            IF member.m = "junk" THEN "E002"
            ELSE IF member.m = "requirement"
            THEN IF context = "template" THEN "" ELSE "E012"
            ELSE IF member.m = "requires_element"
            THEN IF context = "template" THEN FirstErrorIn(member, "inlined") ELSE "E012"
            ELSE IF member.m = "element"
            THEN FirstErrorIn(member, IF context \in {"template", "nested"}
                                      THEN "nested" ELSE "element")
            ELSE ""
        RECURSIVE Members(_)
        Members(i) ==
            IF i > Len(block.body)
            THEN IF context # "element" THEN ""
                 ELSE IF HasLine(block, "scope?") THEN "E014"
                 ELSE IF HasLine(block, "ref?") THEN "E015"
                 ELSE ""
            ELSE IF Inside(block.body[i]) # "" THEN Inside(block.body[i])
                 ELSE Members(i + 1)
    IN  Members(1)

\* that of a top-level element
FirstError(element) == FirstErrorIn(element, "element")

\* the document starts with an element
ElementFirst == document # <<>> /\ document[1].m = "element"

\* C11: for every top-level element the parser reports the first error in
\* the order of the text, where a scope without expression (E014) or, when
\* the element has none, a ref without expression (E015) counts at the end
\* of the block of its element; an element without error is in the Program
UnboundedRejected ==
    ParseDone /\ PlainLayout /\ ElementFirst =>
        LET expected == FirstError(document[1]) IN
        IF expected = ""
        THEN /\ Reported \subseteq {"E001"}    \* of a stray line after the element
             /\ parsed.elements # <<>> /\ parsed.elements[1].name = document[1].name
        ELSE /\ parser.diagnostics # <<>> /\ parser.diagnostics[1] = expected
             /\ \A i \in 1..Len(parsed.elements) :
                    parsed.elements[i].name # document[1].name

\* an element nested in a top-level element has a scope without expression
\* and E014 is what is reported
UnboundedRejectedWitness ==
    /\ ParseDone /\ PlainLayout /\ ElementFirst
    /\ \E e \in ElementsIn(document[1].body) : HasLine(e, "scope?")
    /\ parser.diagnostics[1] = "E014"

\* the elements of a sequence
Range(seq) == {seq[i] : i \in 1..Len(seq)}

RECURSIVE UnboundedNames(_, _)
\* the names declared without expression by lines of the kind `kind`,
\* among the members and inside their blocks
UnboundedNames(members, kind) ==
    UNION {IF IsBlock(members[i]) THEN UnboundedNames(members[i].body, kind)
           ELSE IF members[i].m = kind THEN {members[i].lex[2]} ELSE {} :
           i \in 1..Len(members)}

RECURSIVE DeclaredInElement(_, _)
\* the scope or ref declarations (`field`) of an Element of the AST and of
\* its children
DeclaredInElement(element, field) ==
    Range(element[field])
        \cup UNION {DeclaredInElement(child, field) : child \in Range(element.children)}

\* those of a Template: its own, those of its nested elements and those of
\* the inlined bodies of its requirements
DeclaredInTemplate(template, field) ==
    Range(template[field])
        \cup UNION {DeclaredInElement(el, field) : el \in Range(template.elements)}
        \cup UNION {IF req.component.spec = "Element" /\ req.component.body.some
                    THEN DeclaredInElement(req.component.body.v, field) ELSE {} :
                    req \in Range(template.component_requirements)}

\* the document starts with a template
TemplateFirst == document # <<>> /\ document[1].m = "template"

\* C12: the elements nested at any depth inside a template (in its body,
\* in a nested element, in the inlined body of a `requires element NAME:`)
\* may declare scopes and refs without expression: no E014 and no E015 is
\* reported, and the AST keeps these declarations with no expression
UnboundedAllowedInTemplates ==
    ParseDone /\ PlainLayout /\ TemplateFirst =>
        /\ Reported \cap {"E014", "E015"} = {}
        /\ \A t \in Range(parsed.templates) :
            t.name = document[1].name =>
                /\ \A n \in UnboundedNames(document[1].body, "scope?") :
                    \E d \in DeclaredInTemplate(t, "scopes") :
                        d.name = n /\ ~d.expression.some
                /\ \A n \in UnboundedNames(document[1].body, "ref?") :
                    \E d \in DeclaredInTemplate(t, "refs") :
                        d.name = n /\ ~d.expression.some

RECURSIVE ElementsOfAST(_)
\* the Elements among those given and below them
ElementsOfAST(elements) ==
    UNION {{el} \cup ElementsOfAST(el.children) : el \in Range(elements)}

\* every Element of the Program under construction
ElementsOfProgram ==
    ElementsOfAST(parsed.elements)
        \cup UNION {ElementsOfAST(t.elements) : t \in Range(parsed.templates)}
        \cup UNION {UNION {IF req.component.spec = "Element" /\ req.component.body.some
                           THEN ElementsOfAST(<<req.component.body.v>>) ELSE {} :
                           req \in Range(t.component_requirements)} :
                    t \in Range(parsed.templates)}

RECURSIVE BodiesOfElements(_)
\* the element blocks and the inlined bodies among the members, at any depth
BodiesOfElements(members) ==
    UNION {IF ~IsBlock(members[i]) THEN {}
           ELSE {members[i]} \cup BodiesOfElements(members[i].body) :
           i \in 1..Len(members)}

\* the first declaration has a requirement in the body of an element
RequirementInsideElement ==
    \/ ElementFirst /\ \E e \in BodiesOfElements(<<document[1]>>) :
            HasLine(e, "requirement")
    \/ TemplateFirst /\ \E e \in BodiesOfElements(document[1].body) :
            HasLine(e, "requirement")

\* the requirement lines and blocks written directly in the body of a block
DirectRequirements(block) ==
    SelectSeq(block.body, LAMBDA member : member.m \in {"requirement", "requires_element"})

\* C13 as stated: a requirement in the body of an element makes parsing
\* report E012, no Element of the Program has component requirements, and
\* the requirements written directly in a template that has no error are
\* those of the Template
RequirementsOnlyInTemplatesAsStated ==
    ParseDone /\ PlainLayout =>
        /\ RequirementInsideElement => "E012" \in Reported
        /\ \A el \in ElementsOfProgram : el.component_requirements = <<>>
        /\ TemplateFirst /\ FirstErrorIn(document[1], "template") = "" =>
            /\ parser.diagnostics = <<>> \/ Reported = {"E001"}
            /\ parsed.templates # <<>>
            /\ Len(parsed.templates[1].component_requirements)
                    = Len(DirectRequirements(document[1]))

\* C13: the same, where the requirement in the body of an element makes
\* parsing report E012 when no other error of its top-level declaration
\* comes before it in the text
RequirementsOnlyInTemplates ==
    ParseDone /\ PlainLayout =>
        /\ ElementFirst /\ FirstErrorIn(document[1], "element") = "E012" =>
                parser.diagnostics[1] = "E012"
        /\ TemplateFirst /\ FirstErrorIn(document[1], "template") = "E012" =>
                parser.diagnostics[1] = "E012"
        /\ \A el \in ElementsOfProgram : el.component_requirements = <<>>
        /\ TemplateFirst /\ FirstErrorIn(document[1], "template") = "" =>
            /\ parser.diagnostics = <<>> \/ Reported = {"E001"}
            /\ parsed.templates # <<>>
            /\ Len(parsed.templates[1].component_requirements)
                    = Len(DirectRequirements(document[1]))

\* an element nested in a template, written with braces, has a requirement
\* and E012 is reported; the template is not in the Program
RequirementsOnlyInTemplatesWitness ==
    /\ ParseDone /\ PlainLayout /\ TemplateFirst
    /\ \E e \in ElementsIn(document[1].body) :
            e.layout = "brace" /\ HasLine(e, "requirement")
    /\ parser.diagnostics[1] = "E012"
    /\ parsed.templates = <<>>

\* the blocks of the text parsed first were rewritten and parsed again
ParsedBothForms == ParseDone /\ firstParse.valid

\* C14: the same declarations written with the blocks in the other syntax,
\* whatever the indentation inside a brace block and of its closing brace,
\* parse to the same AST and the same diagnostic codes
BlockSyntaxesAgree ==
    ParsedBothForms =>
        /\ parsed = firstParse.program
        /\ parser.diagnostics = firstParse.diagnostics

\* the declaration is in the Program under construction
Present(declaration) ==
    IF declaration.m = "element"
    THEN \E el \in Range(parsed.elements) : el.name = declaration.name
    ELSE IF declaration.m = "template"
    THEN \E t \in Range(parsed.templates) : t.name = declaration.name
    ELSE IF declaration.m = "language"
    THEN \E l \in Range(parsed.languages) : l.name = declaration.lex[2]
    ELSE TRUE

\* C15: when a top-level element is malformed a diagnostic is recorded,
\* every well-formed declaration that follows it at top level (element,
\* template or language) is in the returned Program, and no member of the
\* malformed element is a top-level declaration of the Program
RecoveryKeepsSiblings ==
    ParseDone /\ PlainLayout /\ ElementFirst /\ FirstError(document[1]) # "" =>
        /\ parser.diagnostics # <<>>
        /\ \A i \in 2..Len(document) : Present(document[i])
        /\ \A el \in Range(parsed.elements) :
                \A member \in ElementsIn(document[1].body) : el.name # member.name

(***************************************************************************)
(* Lexer::tokenize, one action for each call of next_token.                *)
(***************************************************************************)
MaxLines == 3
Indentations == {0, 1, 2}

\* what a line holds after its indentation: code, a comment, a doc comment
\* or nothing
LineContents == {<<"x">>, <<"#c">>, <<"##d">>, <<>>}

SourceLines == {Spaces(n) \o c : n \in Indentations, c \in LineContents}

RECURSIVE JoinLines(_)
\* the lines with a newline between them
JoinLines(lines) ==
    IF Len(lines) = 1 THEN lines[1]
    ELSE lines[1] \o <<"\n">> \o JoinLines(Tail(lines))

\* the texts of at most MaxLines lines, the last one with or without newline
LexerSources ==
    UNION {{JoinLines(lines) \o ending :
                lines \in [1..n -> SourceLines], ending \in {<<>>, <<"\n">>}} :
           n \in 1..MaxLines}

LexerInit ==
    /\ NoRun
    /\ source \in LexerSources
    /\ lexer = [phase |-> "idle"]
    /\ lexed = <<>>
    /\ parser = [phase |-> "idle"]
    /\ parsed = <<>>
    /\ document = <<>>
    /\ firstParse = [valid |-> FALSE]
    /\ TransportIdle

\* Lexer::new
LexerStart ==
    /\ lexer.phase = "idle"
    /\ lexer' = LexerNew
    /\ UNCHANGED <<runVars, transportVars, validateVars, source, lexed, parser, parsed, document, firstParse>>

\* the token stream ends with EOF
StreamEnded == lexed # <<>> /\ Last(lexed).kind = "Eof"

\* one turn of the loop of tokenize: next_token, and the token pushed
NextToken ==
    /\ lexer.phase = "lexing"
    /\ ~StreamEnded
    /\ LET step == next_token(source, lexer) IN
        /\ lexer' = step.lexer
        /\ lexed' = Append(lexed, step.token)
    /\ UNCHANGED <<runVars, transportVars, validateVars, source, parser, parsed, document, firstParse>>

\* tokenize returns the tokens
TokenizeReturn ==
    /\ lexer.phase = "lexing"
    /\ StreamEnded
    /\ lexer' = [lexer EXCEPT !.phase = "done"]
    /\ UNCHANGED <<runVars, transportVars, validateVars, source, lexed, parser, parsed, document, firstParse>>

LexerNext ==
    \/ LexerStart
    \/ NextToken
    \/ TokenizeReturn

LexerSpec == LexerInit /\ [][LexerNext]_vars

(***************************************************************************)
(* Properties of the lexer.                                                *)
(***************************************************************************)
\* how many of the first n tokens are of the kind
CountKind(kind, n) == Cardinality({i \in 1..n : lexed[i].kind = kind})

\* the line that starts at pos: its indentation (a tab counting 4) and
\* whether it holds code, a comment only, or nothing
RECURSIVE LineFrom(_, _, _)
LineFrom(src, pos, indent) ==
    IF pos > Len(src) \/ src[pos] = "\n" THEN [indent |-> indent, kind |-> "blank"]
    ELSE IF src[pos] = " " THEN LineFrom(src, pos + 1, indent + 1)
    ELSE IF src[pos] = "\t" THEN LineFrom(src, pos + 1, indent + 4)
    ELSE IF TokenKindOf(src[pos]) \in {"Comment", "DocComment"}
         THEN [indent |-> indent, kind |-> "comment"]
    ELSE [indent |-> indent, kind |-> "code"]

\* EOF is the last token of the stream returned, and the only EOF
OneEofAtEnd ==
    /\ \A i \in 1..Len(lexed) : lexed[i].kind = "Eof" => i = Len(lexed)
    /\ lexer.phase = "done" => StreamEnded

\* in every prefix the DEDENT tokens do not outnumber the INDENT tokens,
\* and at EOF they are as many
DedentsBalanced ==
    /\ \A n \in 0..Len(lexed) : CountKind("Dedent", n) <= CountKind("Indent", n)
    /\ StreamEnded => CountKind("Dedent", Len(lexed)) = CountKind("Indent", Len(lexed))

\* a DEDENT is followed by DEDENTs and then by a token of a line of code
\* or by EOF: no newline and no doc comment comes right after a DEDENT
DedentsOnlyBeforeCode ==
    \A i \in 1..(Len(lexed) - 1) :
        lexed[i].kind = "Dedent" => lexed[i + 1].kind \notin {"Newline", "DocComment"}

\* a call of next_token that starts a line of code indented below the top
\* of the stack pops the levels above the indentation of the line and
\* emits one DEDENT for each, this call returning the first
DedentPerLevel ==
    lexer.phase = "lexing" /\ lexer.at_line_start /\ lexer.pending_tokens = <<>>
        /\ ~lexer.finished /\ lexed' # lexed =>
    LET line == LineFrom(source, lexer.line_start_offset, 0)
        above == {i \in 1..Len(lexer.indent_stack) : lexer.indent_stack[i] > line.indent}
    IN  line.kind = "code" /\ line.indent < Last(lexer.indent_stack) =>
            /\ Last(lexed').kind = "Dedent"
            /\ \A i \in 1..Len(lexer'.pending_tokens) :
                    lexer'.pending_tokens[i].kind = "Dedent"
            /\ 1 + Len(lexer'.pending_tokens) = Cardinality(above)
            /\ lexer'.indent_stack =
                    SelectSeq(lexer.indent_stack, LAMBDA level : level <= line.indent)

JNull == [j |-> "null"]
JBool(b) == [j |-> "bool", b |-> b]
JNumber(n) == [j |-> "number", n |-> n, f |-> 0]
JFloat(n, f) == [j |-> "number", n |-> n, f |-> f]
JString(s) == [j |-> "string", s |-> s]
JArray(items) == [j |-> "array", items |-> items]
JObject(fields) == [j |-> "object", fields |-> fields]

\* serde_json::Map::contains_key
Has(json, key) == json.j = "object" /\ key \in DOMAIN json.fields

\* `.as_str().unwrap_or_default()`
StrOrDefault(json) == IF json.j = "string" THEN json.s ELSE <<>>

\* `.as_i64().unwrap_or(0)`
I64OrZero(json) == IF json.j = "number" /\ json.f = 0 THEN json.n ELSE 0

\* `.as_bool().unwrap_or(false)`
BoolOrFalse(json) == json.j = "bool" /\ json.b

\* `== Some(&json!(s))` and `.as_str() == Some(s)`
IsStr(json, s) == json.j = "string" /\ json.s = s

\* LibraryResult<T>
LibOk(v) == Ok(v, <<>>)
LibraryError(code, message) == Err(code, message, <<>>)

E500 == <<"E", "5", "0", "0">>
E503 == <<"E", "5", "0", "3">>
E505 == <<"E", "5", "0", "5">>
E506 == <<"E", "5", "0", "6">>
E507 == <<"E", "5", "0", "7">>
E508 == <<"E", "5", "0", "8">>
E509 == <<"E", "5", "0", "9">>
E615 == <<"E", "6", "1", "5">>
E616 == <<"E", "6", "1", "6">>

VNull == [tag |-> "Null"]
VConnectionPoint(name, kind) ==
    [tag |-> "ConnectionPoint", name |-> name, kind |-> kind, data |-> <<>>]
\* Scope::new: no paths, not resolved
VScopeNew(kind, descriptor) ==
    [tag |-> "Scope", kind |-> kind, descriptor |-> descriptor,
     paths |-> <<>>, resolved |-> FALSE]

RECURSIVE value_to_json(_)
\* ExternalLibrary::value_to_json and WasmLibrary::value_to_json
value_to_json(value) ==
    CASE value.tag = "Null" -> JNull
      [] value.tag = "Bool" -> JBool(value.b)
      [] value.tag = "Int" -> JObject("Int" :> JNumber(value.n))
      [] value.tag = "Float" -> JObject("Float" :> JFloat(value.n, value.f))
      [] value.tag = "String" -> JObject("String" :> JString(value.s))
      [] value.tag = "List" ->
            JObject("List" :> JArray([i \in 1..Len(value.items) |->
                                         value_to_json(value.items[i])]))
      [] value.tag = "Scope" ->
            JObject("Scope" :> JObject(
                ("kind" :> JObject(value.kind :> JString(value.descriptor)))
                @@ ("paths" :> JArray([i \in 1..Len(value.paths) |->
                                          JString(value.paths[i])]))
                @@ ("resolved" :> JBool(value.resolved))))
      [] value.tag = "ConnectionPoint" ->
            JObject("ConnectionPoint" :> JObject(
                ("name" :> JString(value.name))
                @@ ("kind" :> JString(value.kind))
                @@ ("data" :> JObject(<<>>))))

\* the ScopeKind of the "kind" member of a scope on the wire
ScopeKindOf(scope) ==
    IF Has(scope, "kind") /\ scope.fields["kind"].j = "object"
    THEN LET k == scope.fields["kind"] IN
         IF Has(k, "File") THEN <<"File", StrOrDefault(k.fields["File"])>>
         ELSE IF Has(k, "Folder") THEN <<"Folder", StrOrDefault(k.fields["Folder"])>>
         ELSE IF Has(k, "Glob") THEN <<"Glob", StrOrDefault(k.fields["Glob"])>>
         ELSE <<"File", <<>>>>
    ELSE <<"File", <<>>>>

RECURSIVE Strings(_)
\* `.filter_map(|v| v.as_str().map(|s| s.to_string())).collect()`
Strings(items) ==
    IF items = <<>> THEN <<>>
    ELSE IF Head(items).j = "string"
         THEN <<Head(items).s>> \o Strings(Tail(items))
         ELSE Strings(Tail(items))

\* the Scope of the "Scope" member of an object on the wire
ScopeOf(scope) ==
    [tag |-> "Scope",
     kind |-> ScopeKindOf(scope)[1],
     descriptor |-> ScopeKindOf(scope)[2],
     paths |-> IF Has(scope, "paths") /\ scope.fields["paths"].j = "array"
               THEN Strings(scope.fields["paths"].items) ELSE <<>>,
     resolved |-> Has(scope, "resolved") /\ BoolOrFalse(scope.fields["resolved"])]

CannotConvert == LibraryError(E508, <<"Cannot convert JSON to Value">>)

RECURSIVE json_to_value(_)
RECURSIVE CollectValues(_)

\* `items.iter().map(json_to_value).collect::<Result<Vec<_>, _>>()`
CollectValues(items) ==
    IF items = <<>> THEN LibOk(<<>>)
    ELSE Try(json_to_value(Head(items)), LAMBDA first :
         Try(CollectValues(Tail(items)), LAMBDA rest :
         LibOk(<<first.val>> \o rest.val)))

\* the object arm of json_to_value: the tags are looked up in this order
TaggedToValue(json) ==
    IF Has(json, "String") THEN LibOk(VString(StrOrDefault(json.fields["String"])))
    ELSE IF Has(json, "Int") THEN LibOk(VInt(I64OrZero(json.fields["Int"])))
    ELSE IF Has(json, "Float")
         THEN LibOk(IF json.fields["Float"].j = "number"
                    THEN VFloat(json.fields["Float"].n, json.fields["Float"].f)
                    ELSE VFloat(0, 0))
    ELSE IF Has(json, "Bool") THEN LibOk(VBool(BoolOrFalse(json.fields["Bool"])))
    ELSE IF Has(json, "List") /\ json.fields["List"].j = "array"
         THEN Try(CollectValues(json.fields["List"].items), LAMBDA values :
              LibOk(VList(values.val)))
    ELSE IF Has(json, "Scope") /\ json.fields["Scope"].j = "object"
         THEN LibOk(ScopeOf(json.fields["Scope"]))
    ELSE CannotConvert

\* ExternalLibrary::json_to_value and WasmLibrary::json_value_to_value
json_to_value(json) ==
    CASE json.j = "null" -> LibOk(VNull)
      [] json.j = "bool" -> LibOk(VBool(json.b))
      [] json.j = "number" ->
            IF json.f = 0 THEN LibOk(VInt(json.n)) ELSE LibOk(VFloat(json.n, json.f))
      [] json.j = "string" -> LibOk(VString(json.s))
      [] json.j = "object" -> TaggedToValue(json)
      [] OTHER -> CannotConvert

PassStr == <<"p", "a", "s", "s">>
FailStr == <<"f", "a", "i", "l">>
ErrorStr == <<"e", "r", "r", "o", "r">>
OkStr == <<"o", "k">>
TrueStr == <<"t", "r", "u", "e">>
FalseStr == <<"f", "a", "l", "s", "e">>
CheckFailed == <<"Check failed">>
CheckError == <<"Check error">>

\* char::to_lowercase on the letters the model writes
LowerChar(c) ==
    CASE c = "P" -> "p" [] c = "A" -> "a" [] c = "S" -> "s"
      [] c = "O" -> "o" [] c = "K" -> "k"
      [] OTHER -> c

\* str::to_lowercase
to_lowercase(s) == [i \in 1..Len(s) |-> LowerChar(s[i])]

\* `obj.get("message").and_then(|m| m.as_str()).unwrap_or(default)`
MessageOr(json, default) ==
    IF Has(json, "message") /\ json.fields["message"].j = "string"
    THEN json.fields["message"].s
    ELSE default

\* the object arm shared by both json_to_check_result functions: None when
\* no form is recognised
ObjectToCheckResult(json) ==
    IF Has(json, "Pass") \/ (Has(json, "result") /\ IsStr(json.fields["result"], PassStr))
    THEN Some(Pass)
    ELSE IF Has(json, "Fail") THEN Some(Fail(StrOrDefault(json.fields["Fail"])))
    ELSE IF Has(json, "Error") THEN Some(Error(StrOrDefault(json.fields["Error"])))
    ELSE IF Has(json, "result") /\ IsStr(json.fields["result"], FailStr)
         THEN Some(Fail(MessageOr(json, CheckFailed)))
    ELSE IF Has(json, "result") /\ IsStr(json.fields["result"], ErrorStr)
         THEN Some(Error(MessageOr(json, CheckError)))
    ELSE None

\* ExternalLibrary::json_to_check_result
json_to_check_result(json) ==
    IF json.j = "object" /\ ObjectToCheckResult(json).some
    THEN LibOk(ObjectToCheckResult(json).v)
    ELSE IF json.j = "string"
    THEN IF to_lowercase(json.s) \in {PassStr, OkStr, TrueStr} THEN LibOk(Pass)
         ELSE IF to_lowercase(json.s) \in {FailStr, FalseStr} THEN LibOk(Fail(CheckFailed))
         ELSE LibOk(Fail(json.s))
    ELSE LibraryError(E509, <<"Cannot convert JSON to CheckResult">>)

\* a line of text: a JSON document, or text that is not JSON (the empty line
\* read at end of file included)
Text(doc) == [json |-> TRUE, doc |-> doc]
NotJson == [json |-> FALSE]

\* WasmLibrary::json_to_check_result
WasmJsonToCheckResult(json_str) ==
    IF ~json_str.json
    THEN LibraryError(E615, <<"Failed to parse JSON from WASM">>)
    ELSE IF json_str.doc.j = "object" /\ ObjectToCheckResult(json_str.doc).some
    THEN LibOk(ObjectToCheckResult(json_str.doc).v)
    ELSE LibraryError(E616, <<"Cannot convert JSON to CheckResult">>)

(***************************************************************************)
(* JSON-RPC over the pipes of the child process.                           *)
(***************************************************************************)
RECURSIVE Decimal(_)
\* the decimal digits of a natural number
Decimal(n) ==
    IF n < 10 THEN <<<<"0", "1", "2", "3", "4", "5", "6", "7", "8", "9">>[n + 1]>>
    ELSE Decimal(n \div 10) \o Decimal(n % 10)

\* format!("{}", i) for an i32
FormatI32(i) == IF i < 0 THEN <<"-">> \o Decimal(0 - i) ELSE Decimal(i)

\* the JSON-RPC response line of the child
Response(id, members) ==
    Text(JObject(("jsonrpc" :> JString(<<"2.0">>)) @@ ("id" :> JNumber(id)) @@ members))

\* the member "error" of a response
RpcError(code, message) ==
    "error" :> JObject(("code" :> JNumber(code)) @@ ("message" :> JString(message)))

\* Option<T> from a member of an object: absent and null are both None
Member(json, key) ==
    IF Has(json, key) /\ json.fields[key].j # "null"
    THEN Some(json.fields[key]) ELSE None

\* an i32
IsI32(json) ==
    json.j = "number" /\ json.f = 0 /\ json.n >= -2147483647 - 1 /\ json.n <= 2147483647

\* Deserialize for JsonRpcError
IsJsonRpcError(json) ==
    /\ Has(json, "code") /\ IsI32(json.fields["code"])
    /\ Has(json, "message") /\ json.fields["message"].j = "string"

\* serde_json::from_str::<JsonRpcResponse>
IsJsonRpcResponse(line) ==
    /\ line.json
    /\ Has(line.doc, "jsonrpc") /\ line.doc.fields["jsonrpc"].j = "string"
    /\ Has(line.doc, "id") /\ line.doc.fields["id"].j = "number"
    /\ line.doc.fields["id"].f = 0 /\ line.doc.fields["id"].n >= 0
    /\ Member(line.doc, "error").some => IsJsonRpcError(Member(line.doc, "error").v)

\* the error of a response with the code as it is, without the prefix
ErrorOfResponseBareCode(error) ==
    LibraryError(FormatI32(error.fields["code"].n), error.fields["message"].s)

\* `LibraryError::new(format!("E{}", error.code), error.message)`
ErrorOfResponse(error) ==
    LibraryError(<<"E">> \o FormatI32(error.fields["code"].n), error.fields["message"].s)

\* send_request from the line it read: what it returns
ResultOfResponse(read) ==
    IF ~read.ok THEN LibraryError(E505, <<"Failed to read from external process">>)
    ELSE IF ~IsJsonRpcResponse(read.line)
    THEN LibraryError(E506, <<"Failed to parse response">>)
    ELSE IF Member(read.line.doc, "error").some
    THEN ErrorOfResponse(Member(read.line.doc, "error").v)
    ELSE IF Member(read.line.doc, "result").some
    THEN LibOk(Member(read.line.doc, "result").v)
    ELSE LibraryError(E507, <<"External process returned empty result">>)

\* what read_line gives
ReadLine(line) == [ok |-> TRUE, line |-> line]
ReadFailed == [ok |-> FALSE]

\* Library::call and Library::check of ExternalLibrary, after send_request
DecodeResult(method, r) ==
    IF ~r.ok THEN r
    ELSE IF method = "library.call" THEN json_to_value(r.val)
    ELSE json_to_check_result(r.val)

(***************************************************************************)
(* An interpreter whose checks and scope expressions go to one external    *)
(* library (ExternalLibrary) and to one WebAssembly library (WasmLibrary). *)
(***************************************************************************)
MaxOperations == 2  \* library operations of one run
MaxDepth == 1       \* nesting of lists in the values on the wire

Messages == {<<"b", "o", "o", "m">>, <<>>}
Codes == {42, -32601}

Atoms ==
    {VNull, VBool(TRUE), VBool(FALSE), VInt(42), VInt(-1),
     VString(<<"x">>), VString(<<>>),
     VScope("Folder", <<"s", "r", "c">>, <<<<"a">>, <<"b">>>>),
     VScopeNew("Glob", <<"*">>), VScopeNew("File", <<>>),
     VConnectionPoint(<<"api">>, <<"rest">>)}

RECURSIVE Values(_)
\* the values of the model: lists nest to the given depth
Values(depth) ==
    IF depth = 0 THEN Atoms
    ELSE Atoms
         \cup {VList(<<>>)}
         \cup {VList(<<v>>) : v \in Values(depth - 1)}
         \cup {VList(<<v, w>>) : v \in Values(depth - 1), w \in {VInt(42), VNull}}

\* the CheckResult forms of the wire format
CheckForms ==
    {JObject("Pass" :> JNull), JObject("result" :> JString(PassStr)),
     JString(PassStr), JString(OkStr), JString(TrueStr)}
    \cup {JObject("Fail" :> JString(m)) : m \in Messages}
    \cup {JObject(("result" :> JString(FailStr)) @@ ("message" :> JString(m))) : m \in Messages}
    \cup {JObject("Error" :> JString(m)) : m \in Messages}
    \cup {JObject(("result" :> JString(ErrorStr)) @@ ("message" :> JString(m))) : m \in Messages}

\* what a library may answer to a check besides
OtherCheckAnswers ==
    {JNumber(1), JString(<<"P", "A", "S", "S">>), JString(<<"n", "o">>),
     JObject("result" :> JString(FailStr))}

\* the result member of the answers to library.call and library.check
Answers(op) ==
    IF op = "call"
    THEN {value_to_json(v) : v \in Values(MaxDepth)} \cup {JArray(<<>>)}
    ELSE CheckForms \cup OtherCheckAnswers

\* what read_line may give after the request with this id
Reads(op, id) ==
    {ReadLine(Response(id, "result" :> a)) : a \in Answers(op) \cup {JNull}}
    \cup {ReadLine(Response(id, RpcError(c, m))) : c \in Codes, m \in Messages}
    \cup {ReadLine(Response(id, <<>>)), ReadLine(NotJson), ReadFailed}

Operations == {"call", "check", "wasm_check"}

Plans == UNION {[1..n -> Operations] : n \in 1..MaxOperations}

TransportInit ==
    /\ program \in Plans
    /\ options = <<>>
    /\ pc = "running"
    /\ exitCode = -1
    /\ validation = [done |-> FALSE]
    /\ scopes = <<>>
    /\ diagnostics = <<>>
    /\ current_element_path = <<>>
    /\ output = EmptyOutput
    /\ stack = <<>>
    /\ run = 0
    /\ fresh = TRUE
    /\ history = <<>>
    /\ previous = [valid |-> FALSE]
    /\ NoValidation
    /\ FrontEndIdle
    \* ExternalLibrary::new
    /\ library = [process |-> None, request_id |-> 0]
    /\ subprocess = [spawned |-> 0, running |-> FALSE]
    /\ wire = <<>>
    /\ call = [phase |-> "idle", op |-> "none"]

\* a child is spawned at every request
ensure_processAgain(lib, os, spawns) ==
    IF spawns
    THEN [ok |-> TRUE,
          library |-> [lib EXCEPT !.process = Some(os.spawned + 1)],
          child |-> [spawned |-> os.spawned + 1, running |-> TRUE]]
    ELSE [ok |-> FALSE, library |-> lib, child |-> os]

\* ExternalLibrary::ensure_process; spawns: whether Command::spawn succeeds
ensure_process(lib, os, spawns) ==
    IF lib.process.some
    THEN [ok |-> TRUE, library |-> lib, child |-> os]
    ELSE IF spawns
    THEN [ok |-> TRUE,
          library |-> [lib EXCEPT !.process = Some(os.spawned + 1)],
          child |-> [spawned |-> os.spawned + 1, running |-> TRUE]]
    ELSE [ok |-> FALSE, library |-> lib, child |-> os]

\* the operation the interpreter reaches next
Ready(op) ==
    /\ pc = "running"
    /\ call.phase = "idle"
    /\ Len(history) < Len(program)
    /\ program[Len(history) + 1] = op

MethodOf(op) == IF op = "call" THEN "library.call" ELSE "library.check"

ElementPath == <<"e">>
CheckExpr(i) == <<"lib.f", i>>

\* the line is a JSON-RPC response with an error member
IsErrorResponse(read) ==
    read.ok /\ IsJsonRpcResponse(read.line) /\ Member(read.line.doc, "error").some

\* the operation returned r: what Interpreter::run_element_with_options
\* records for a check, and for a scope expression
Finish(op, read, r) ==
    /\ call' = [phase |-> "idle", op |-> op, read |-> read, result |-> r]
    /\ history' = Append(history, [op |-> op, ok |-> r.ok,
                                   error_response |-> op # "wasm_check" /\ IsErrorResponse(read)])
    /\ IF op = "call"
       THEN /\ diagnostics' = IF r.ok THEN diagnostics ELSE Append(diagnostics, r.code)
            /\ UNCHANGED output
       ELSE /\ output' = Record(output, ElementPath, CheckExpr(Len(history) + 1), r)
            /\ UNCHANGED diagnostics

\* send_request up to the point where it waits for the response line
SendRequest ==
    /\ \E op \in {"call", "check"}, spawns \in BOOLEAN :
         /\ Ready(op)
         /\ ensure_process(library, subprocess, spawns).ok
         /\ ensure_process(library, subprocess, spawns).child.running
         /\ library' = [ensure_process(library, subprocess, spawns).library
                           EXCEPT !.request_id = @ + 1]
         /\ subprocess' = ensure_process(library, subprocess, spawns).child
         /\ wire' = Append(wire, [ev |-> "write", id |-> library.request_id + 1,
                                  method |-> MethodOf(op)])
         /\ call' = [phase |-> "waiting", op |-> op]
    /\ UNCHANGED <<program, options, pc, exitCode, validation, scopes, diagnostics,
                   current_element_path, output, stack, run, fresh, history, previous>>
    /\ UNCHANGED <<frontVars, validateVars>>

\* Command::spawn fails: the operation ends with E500
SpawnFails ==
    /\ \E op \in {"call", "check"} :
         /\ Ready(op)
         /\ ~ensure_process(library, subprocess, FALSE).ok
         /\ Finish(op, ReadFailed,
                   LibraryError(E500, <<"Failed to start external library">>))
    /\ UNCHANGED <<program, options, pc, exitCode, validation, scopes,
                   current_element_path, stack, run, fresh, previous>>
    /\ UNCHANGED <<frontVars, validateVars, library, subprocess, wire>>

\* the child is gone when the request is written: the operation ends with E503
WriteFails ==
    /\ \E op \in {"call", "check"}, spawns \in BOOLEAN :
         /\ Ready(op)
         /\ ensure_process(library, subprocess, spawns).ok
         /\ library.process.some => ~subprocess.running
         /\ library' = [ensure_process(library, subprocess, spawns).library
                           EXCEPT !.request_id = @ + 1]
         /\ subprocess' = [ensure_process(library, subprocess, spawns).child
                           EXCEPT !.running = FALSE]
         /\ Finish(op, ReadFailed,
                   LibraryError(E503, <<"Failed to write to external process">>))
    /\ UNCHANGED <<program, options, pc, exitCode, validation, scopes,
                   current_element_path, stack, run, fresh, previous>>
    /\ UNCHANGED <<frontVars, validateVars, wire>>

\* send_request from read_line on, and what call, check and the interpreter
\* do with what it returns
ReceiveResponse ==
    /\ pc = "running"
    /\ call.phase = "waiting"
    /\ \E read \in Reads(call.op, library.request_id) :
         /\ wire' = Append(wire, [ev |-> "read", id |-> library.request_id,
                                  method |-> MethodOf(call.op)])
         /\ Finish(call.op, read, DecodeResult(MethodOf(call.op), ResultOfResponse(read)))
    /\ UNCHANGED <<program, options, pc, exitCode, validation, scopes,
                   current_element_path, stack, run, fresh, previous>>
    /\ UNCHANGED <<frontVars, validateVars, library, subprocess>>

\* the child process exits on its own
ChildExits ==
    /\ pc = "running"
    /\ subprocess.running
    /\ subprocess' = [subprocess EXCEPT !.running = FALSE]
    /\ UNCHANGED <<runVars, frontVars, validateVars, library, wire, call>>

\* WasmLibrary::check, and what the interpreter does with what it returns
WasmCheck ==
    /\ Ready("wasm_check")
    /\ \E result_str \in {Text(a) : a \in Answers("check")} \cup {NotJson} :
         Finish("wasm_check", ReadLine(result_str), WasmJsonToCheckResult(result_str))
    /\ UNCHANGED <<program, options, pc, exitCode, validation, scopes,
                   current_element_path, stack, run, fresh, previous>>
    /\ UNCHANGED <<frontVars, validateVars, library, subprocess, wire>>

\* the run returns and cmd_run computes the exit code; the Interpreter and
\* its libraries are dropped next
RunExit ==
    /\ pc = "running"
    /\ call.phase = "idle"
    /\ Len(history) = Len(program)
    /\ pc' = "exited"
    /\ exitCode' = ExitCodeFor(output)
    /\ UNCHANGED <<program, options, validation, scopes, diagnostics,
                   current_element_path, output, stack, run, fresh, history, previous>>
    /\ UNCHANGED <<frontVars, validateVars, library, subprocess, wire, call>>

\* Child::try_wait as the system may answer it
TryWait(os) == IF os.running THEN {"running", "error"} ELSE {"exited", "error"}

\* Drop for ExternalLibrary, after the first try_wait: return, sleep, or kill
FirstTryWait(outcome) ==
    IF outcome = "exited" THEN "return"
    ELSE IF outcome = "running" THEN "sleep"
    ELSE "kill"

\* a drop that returns after the second try_wait whatever it says
SecondTryWaitReturns(outcome) == "return"

\* Drop for ExternalLibrary, after the sleep and the second try_wait
SecondTryWait(outcome) == IF outcome = "exited" THEN "return" ELSE "kill"

\* Drop for ExternalLibrary, from `process.take()` to the first try_wait and
\* what follows it; nothing is done for a library without a process
DropLibrary ==
    /\ pc = "exited"
    /\ call.phase = "idle"
    /\ IF ~library.process.some
       THEN /\ call' = [phase |-> "dropped", op |-> "drop", actions |-> <<>>]
            /\ UNCHANGED <<library, subprocess>>
       ELSE /\ library' = [library EXCEPT !.process = None]
            /\ \E outcome \in TryWait(subprocess) :
                 LET next == FirstTryWait(outcome) IN
                 /\ call' = [phase |-> IF next = "sleep" THEN "drop_sleeps" ELSE "dropped",
                             op |-> "drop",
                             actions |-> <<"close_stdin", "try_wait">>
                                         \o (IF next = "kill" THEN <<"kill", "wait">>
                                             ELSE <<>>)]
                 /\ subprocess' = IF next = "kill"
                                  THEN [subprocess EXCEPT !.running = FALSE]
                                  ELSE subprocess
    /\ UNCHANGED <<runVars, frontVars, validateVars, wire>>

\* Drop for ExternalLibrary, from the sleep of 100 ms on: the child, whose
\* stdin is closed, exits in the meantime or does not
DropAfterSleep ==
    /\ call.phase = "drop_sleeps"
    /\ \E exits \in BOOLEAN :
         LET os == [subprocess EXCEPT !.running = @ /\ ~exits] IN
         \E outcome \in TryWait(os) :
            LET next == SecondTryWait(outcome) IN
            /\ call' = [call EXCEPT
                          !.phase = "dropped",
                          !.actions = @ \o <<"sleep", "try_wait">>
                                        \o (IF next = "kill" THEN <<"kill", "wait">>
                                            ELSE <<>>)]
            /\ subprocess' = IF next = "kill" THEN [os EXCEPT !.running = FALSE] ELSE os
    /\ UNCHANGED <<runVars, frontVars, validateVars, library, wire>>

TransportNext ==
    \/ SendRequest
    \/ SpawnFails
    \/ WriteFails
    \/ ReceiveResponse
    \/ ChildExits
    \/ WasmCheck
    \/ RunExit
    \/ DropLibrary
    \/ DropAfterSleep

TransportSpec == TransportInit /\ [][TransportNext]_vars

(***************************************************************************)
(* Properties of the transports.                                           *)
(***************************************************************************)
\* the requests written to the child, in order
Writes == SelectSeq(wire, LAMBDA e : e.ev = "write")

\* no operation of the external library has begun
NoExternalOperationYet ==
    /\ call.phase = "idle"
    /\ \A i \in 1..Len(history) : history[i].op = "wasm_check"

\* C17: for one ExternalLibrary and any sequence of call and check
\* operations, no child process exists before the first operation, at most
\* one child process is ever spawned, the k-th request written carries id k,
\* and a request is written only after the line answering the previous
\* request has been read: writes and reads strictly alternate.
LazyChildAndAlternation ==
    /\ NoExternalOperationYet =>
          subprocess.spawned = 0 /\ ~library.process.some /\ wire = <<>>
    /\ subprocess.spawned <= 1
    /\ \A k \in 1..Len(Writes) : Writes[k].id = k
    /\ \A i \in 1..Len(wire) :
          IF i % 2 = 1
          THEN wire[i].ev = "write"
          ELSE wire[i].ev = "read" /\ wire[i].id = wire[i - 1].id

LazyChildAndAlternationWitness ==
    /\ Len(Writes) = MaxOperations
    /\ Len(wire) = 2 * MaxOperations
    /\ subprocess.spawned = 1
    /\ \E i, k \in 1..Len(wire) : wire[i].method # wire[k].method

\* the check in progress or just made was answered with the JSON-RPC error
\* {code: c, message: m}
AnsweredError(c, m) ==
    /\ call.phase = "idle"
    /\ call.op = "check"
    /\ call.read.ok
    /\ call.read.line = Response(library.request_id, RpcError(c, m))

\* 'E' followed by the code
Prefixed(c) ==
    IF c = 42 THEN <<"E", "4", "2">> ELSE <<"E", "-", "3", "2", "6", "0", "1">>

ErrorAnswerReturned ==
    \A c \in Codes, m \in Messages :
        AnsweredError(c, m) =>
            /\ call.result = LibraryError(Prefixed(c), m)
            /\ output.results[Len(output.results)].result = Error(m)

ErrorAnswerCounted ==
    \A c \in Codes, m \in Messages :
        (call.phase = "waiting" /\ AnsweredError(c, m)') =>
            /\ output'.errors = output.errors + 1
            /\ output'.total = output.total + 1
            /\ output'.passed = output.passed /\ output'.failed = output.failed
            /\ output'.results = Append(output.results,
                   [element_path |-> ElementPath,
                    check_expr |-> CheckExpr(Len(history) + 1),
                    result |-> Error(m)])
            /\ pc' = "running"

\* the checks of the plan
PlannedChecks == {i \in 1..Len(program) : program[i] # "call"}

ErrorAnswerExit ==
    (pc = "exited" /\ \E i \in 1..Len(history) : history[i].error_response
                                               /\ history[i].op = "check") =>
        /\ exitCode = 1
        /\ output.total = Cardinality(PlannedChecks)
        /\ Len(output.results) = Cardinality(PlannedChecks)

\* C18: when the child answers a library.check request with the JSON-RPC
\* error {code: c, message: m}, the transport returns the library error
\* with code 'E' followed by c and message m, the check is recorded as
\* Error(m), errors grows by one and passed and failed stay, the checks
\* that follow are still executed, and the exit code of the run is 1.
ErrorAnswerIsCheckError ==
    /\ [](ErrorAnswerReturned /\ ErrorAnswerExit)
    /\ [][ErrorAnswerCounted]_vars

ErrorAnswerIsCheckErrorWitness ==
    /\ pc = "exited"
    /\ exitCode = 1
    /\ Len(history) = 2
    /\ history[1].error_response /\ history[1].op = "check"
    /\ output.errors = 1 /\ output.passed = 1
    /\ output.results[1].result = Error(<<"b", "o", "o", "m">>)
    /\ output.results[2].result = Pass
    /\ call.result = LibOk(Pass)

\* the library.call just made was answered with the wire form of v
AnsweredValue(v) ==
    /\ call.phase = "idle"
    /\ call.op = "call"
    /\ call.read.ok
    /\ call.read.line = Response(library.request_id, "result" :> value_to_json(v))

\* C19: for every value v without floats (Null, Bool, Int, String, List,
\* Scope, ConnectionPoint, nested to a bounded depth), a library.call
\* answered with the wire form value_to_json(v) returns Ok(v), and
\* json_to_value(value_to_json(v)) = v.
CallResultRoundTrip ==
    \A v \in Values(MaxDepth) :
        /\ AnsweredValue(v) => call.result = LibOk(v)
        /\ AnsweredValue(v) => json_to_value(value_to_json(v)) = LibOk(v)

\* the values that contain no ConnectionPoint
RECURSIVE WithoutConnectionPoint(_)
WithoutConnectionPoint(v) ==
    /\ v.tag # "ConnectionPoint"
    /\ v.tag = "List" => \A i \in 1..Len(v.items) : WithoutConnectionPoint(v.items[i])

\* what holds of the values on the wire: a call returns the value it was
\* answered with, unless that value is Null or contains a ConnectionPoint
CallResultRoundTripOthers ==
    \A v \in Values(MaxDepth) :
        (AnsweredValue(v) /\ WithoutConnectionPoint(v) /\ v # VNull) =>
            call.result = LibOk(v)

\* the CheckResult forms of the wire format, each with the result it stands for
Decoded ==
    {<<JObject("Pass" :> JNull), Pass>>,
     <<JObject("result" :> JString(PassStr)), Pass>>,
     <<JString(PassStr), Pass>>, <<JString(OkStr), Pass>>, <<JString(TrueStr), Pass>>}
    \cup {<<JObject("Fail" :> JString(m)), Fail(m)>> : m \in Messages}
    \cup {<<JObject(("result" :> JString(FailStr)) @@ ("message" :> JString(m))), Fail(m)>>
            : m \in Messages}
    \cup {<<JObject("Error" :> JString(m)), Error(m)>> : m \in Messages}
    \cup {<<JObject(("result" :> JString(ErrorStr)) @@ ("message" :> JString(m))), Error(m)>>
            : m \in Messages}

\* the check just made, through either transport, was answered with this form
AnsweredCheck(form) ==
    /\ call.phase = "idle"
    /\ call.op \in {"check", "wasm_check"}
    /\ call.read.ok
    /\ call.read.line = IF call.op = "check"
                        THEN Response(library.request_id, "result" :> form)
                        ELSE Text(form)

\* C20: both transports decode every CheckResult form of the wire format to
\* the same result: the Pass forms (the strings "pass", "ok" and "true"
\* included) to Pass, the Fail forms to Fail(m), the Error forms to Error(m),
\* and the two json_to_check_result functions agree on every such form.
TransportsDecodeAlike ==
    \A p \in Decoded :
        AnsweredCheck(p[1]) =>
            /\ call.result = LibOk(p[2])
            /\ json_to_check_result(p[1]) = WasmJsonToCheckResult(Text(p[1]))

\* what holds: the forms that are objects are decoded alike and as the wire
\* format says, and the subprocess transport decodes the string forms too
TransportsDecodeObjectsAlike ==
    \A p \in Decoded :
        (AnsweredCheck(p[1]) /\ (p[1].j = "object" \/ call.op = "check")) =>
            /\ call.result = LibOk(p[2])
            /\ p[1].j = "object" =>
                  json_to_check_result(p[1]) = WasmJsonToCheckResult(Text(p[1]))

(***************************************************************************)
(* Runs of programs whose scope expressions and check arguments are member *)
(* accesses.                                                               *)
(***************************************************************************)
\* a.m, a.b.m and x.a.m
MemberAM == LibFn(NameA, NameM)
ChainABM == MemberAccess(LibFn(NameA, NameB), NameM)
ChainXAM == MemberAccess(LibFn(<<"x">>, NameA), NameM)

MemberBodies == {
    Body(<<>>, <<>>),
    \* a scope m, and checks whose first argument is a member access
    Body(<<ScopeDeclaration(NameM, SrcSel)>>,
         <<ExistsIn(ChainABM), ExistsIn(MemberAM)>>),
    \* scopes defined by member accesses
    Body(<<ScopeDeclaration(NameN, MemberAM), ScopeDeclaration(NameM, ChainABM)>>,
         <<ExistsIn(ChainXAM)>>)
}

\* element a { ... element b { ... } }  element c { ... }
MemberPrograms ==
    { <<Element(NameA, ba, <<Element(NameB, bb, <<>>)>>), Element(NameC, bc, <<>>)>>
      : ba \in MemberBodies, bb \in MemberBodies, bc \in MemberBodies }

MemberInit ==
    /\ program \in MemberPrograms
    /\ options \in RunOptionsSet
    /\ pc = "start"
    /\ exitCode = -1
    /\ validation = [done |-> FALSE]
    /\ scopes = <<>>
    /\ diagnostics = <<>>
    /\ current_element_path = <<>>
    /\ output = EmptyOutput
    /\ stack = <<>>
    /\ run = 0
    /\ fresh = TRUE
    /\ history = <<>>
    /\ previous = [valid |-> FALSE]
    /\ NoValidation
    /\ FrontEndIdle
    /\ TransportIdle

MemberSpec == MemberInit /\ [][Next]_vars

\* the member access evaluated by the event: the expression of the scope,
\* or the first argument of the check
MemberOf(e) ==
    IF e.ev = "scope" THEN ScopesAt(e.pos)[e.i].expression
    ELSE ChecksAt(e.pos)[e.i].arguments[1]

\* the event evaluated a member access
EvaluatesMember(e) ==
    IF e.ev = "scope" THEN ScopesAt(e.pos)[e.i].expression.k = "MemberAccess"
    ELSE /\ e.ev = "check"
         /\ ChecksAt(e.pos)[e.i].k = "FunctionCall"
         /\ ChecksAt(e.pos)[e.i].arguments # <<>>
         /\ ChecksAt(e.pos)[e.i].arguments[1].k = "MemberAccess"

\* the step evaluated a member access
MemberStep ==
    /\ Len(history') = Len(history) + 1
    /\ EvaluatesMember(Last(history'))

\* the evaluation made by the step failed with this code
MemberFailedWith(code) ==
    IF Last(history').ev = "scope"
    THEN /\ ~Last(history').ok
         /\ diagnostics' = Append(diagnostics, code)
         /\ scopes' = scopes
    ELSE /\ Last(history').code = code
         /\ Last(history').inv = <<>>
         /\ Last(output'.results).result.r = "Error"

\* the evaluation made by the step gave the value stored under one of the keys
MemberGave(keys) ==
    IF Last(history').ev = "scope"
    THEN /\ Last(history').ok
         /\ diagnostics' = diagnostics
         /\ \E key \in keys : scopes' = Insert(scopes, Last(history').key, scopes[key])
    ELSE /\ Len(Last(history').inv) = 1
         /\ \E key \in keys : Last(history').inv[1].args[1] = scopes[key]

\* C21 as stated: evaluating a member access that is not the function of a
\* call (a.b, and longer chains such as a.b.c), as a scope expression or as
\* a call argument, always fails with E201, whatever scopes are stored.
MemberAccessAlwaysE201 ==
    [][MemberStep => MemberFailedWith("E201")]_vars

\* the stored keys that end with the text of the expression
KeysEndingWith(expr) ==
    {key \in DOMAIN scopes : EndsWith(key, expression_to_string(expr))}

MemberStepAsCoded ==
    MemberStep =>
        LET expr == MemberOf(Last(history')) IN
        IF expr.object.k = "Identifier" THEN MemberFailedWith("E201")
        ELSE IF KeysEndingWith(expr) = {} THEN MemberFailedWith("E202")
        ELSE MemberGave(KeysEndingWith(expr))

\* C21 as amended: evaluating a member access whose object is an identifier
\* (a.b), as a scope expression or as a call argument, always fails with
\* E201, whatever scopes are stored; a longer chain (a.b.c) never fails with
\* E201: it yields the value of a stored scope whose key ends with the text
\* of the chain, and fails with E202 when no stored key does.
MemberAccessE201OrReference ==
    [][MemberStepAsCoded]_vars

MemberAccessE201OrReferenceWitness ==
    /\ LastIsCheck
    /\ CheckExprOf(LastEvent) = ExistsIn(ChainABM)
    /\ Len(LastEvent.inv) = 1
    /\ Last(output.results).result = Pass
    /\ "E201" \in Range(diagnostics)
    /\ "E202" \in Range(diagnostics)

(***************************************************************************)
(* Interpreter::validate: the parser's actions on the file, then           *)
(* validate_semantics, called around the runs of the Interpreter.          *)
(***************************************************************************)
MaxValidations == 2

\* the loop over the imports in Interpreter::validate_semantics: W001 for
\* an identifier path whose first part is no registered library
UnknownImports(imports, libs) ==
    SelectSeq([i \in 1..Len(imports) |->
                 IF /\ imports[i].path.path = "Identifier"
                    /\ Len(imports[i].path.parts) >= 1
                    /\ <<imports[i].path.parts[1]>> \notin libs
                 THEN "W001" ELSE "none"],
              LAMBDA code : code # "none")

\* Interpreter::validate_semantics: validate_template, validate_element and
\* validate_expression walk the declarations and push no diagnostic
validate_semantics(prog, libs) == UnknownImports(prog.imports, libs)

\* an extend that puts the other diagnostics in front
extendInFront(diags, other) == other \o diags

\* Diagnostics::extend
extend(diags, other) == diags \o other

\* the files given to validate: imports of a registered library, of an
\* unknown one, by a string path, selective, broken; declarations with and
\* without syntax errors
ValidatedImports ==
    {<<>>,
     <<Line("import", <<"import", "files">>)>>,
     <<ImportLine>>,
     <<Line("import", <<"import", "'s'">>), ImportLine>>,
     <<Line("import", <<"from", "lib", ".", "m", "import", "x">>),
       Line("import", <<"import", "files", "as", "f">>),
       Line("import", <<"import", "other">>)>>,
     <<Line("import", <<"import">>), ImportLine>>}

ValidatedDeclarations ==
    {<<LanguageLine, Block("element", "a", "indent", <<ScopeBound("x"), CheckLine>>)>>,
     <<JunkLine, Block("element", "a", "brace", <<ScopeUnbounded("x")>>)>>,
     <<Block("template", "t", "indent", <<ScopeUnbounded("x"), RequirementLine>>),
       Block("element", "a", "indent", <<RequirementLine>>)>>}

ValidatedDocuments ==
    {imports \o declarations :
        imports \in ValidatedImports, declarations \in ValidatedDeclarations}

\* the program run on the Interpreter that validates, and the options
ValidatedPrograms ==
    {<<Element(NameA, Body(<<ScopeDeclaration(NameM, SrcSel), ScopeDeclaration(NameN, BadSel)>>,
                           <<ExistsIn(Identifier(NameM)), ExistsIn(Identifier(NameN))>>),
               <<Element(NameB, Body(<<>>, <<ExistsIn(Identifier(NameM))>>), <<>>)>>)>>}

ValidatedOptions == {o \in RunOptionsSet : o.filter = None \/ o.limit = None}

ValidateInit ==
    /\ program \in ValidatedPrograms
    /\ options \in ValidatedOptions
    /\ pc = "start"
    /\ exitCode = -1
    /\ validation = [done |-> FALSE]
    /\ scopes = <<>>
    /\ diagnostics = <<>>
    /\ current_element_path = <<>>
    /\ output = EmptyOutput
    /\ stack = <<>>
    /\ run = 0
    /\ fresh = TRUE
    /\ history = <<>>
    /\ previous = [valid |-> FALSE]
    /\ NoValidation
    /\ document \in ValidatedDocuments
    /\ source = <<>>
    /\ lexer = [phase |-> "idle"]
    /\ lexed = <<>>
    /\ parser = [phase |-> "idle"]
    /\ parsed = <<>>
    /\ firstParse = [valid |-> FALSE]
    /\ TransportIdle

\* Interpreter::validate is called with the text of the file, before a run
\* or between two runs; it borrows the Interpreter mutably, so no run goes
\* on until it returns
ValidateCalled ==
    /\ pc \in {"start", "returned"}
    /\ Len(validated) < MaxValidations
    /\ source' = Render(document, 0)
    /\ pc' = "validating"
    /\ validated' = Append(validated, [done |-> FALSE, called_at |-> pc, run |-> run])
    /\ UNCHANGED <<program, options, exitCode, validation, scopes, diagnostics,
                   current_element_path, output, stack, run, fresh, history, previous>>
    /\ UNCHANGED <<lexer, lexed, parser, parsed, document, firstParse>>
    /\ UNCHANGED <<transportVars, libraries>>

\* Parser::parse has returned: validate_semantics on the Program, the
\* semantic diagnostics after the parser's, and the return
ValidateReturns ==
    /\ pc = "validating"
    /\ parser.phase = "done"
    /\ validated' = [validated EXCEPT ![Len(validated)] =
            [done |-> TRUE, called_at |-> @.called_at, run |-> @.run,
             program |-> Some(parsed),
             diagnostics |-> extend(parser.diagnostics,
                                    validate_semantics(parsed, libraries))]]
    /\ pc' = Last(validated).called_at
    /\ source' = <<>>
    /\ parser' = [phase |-> "idle"]
    /\ parsed' = <<>>
    /\ UNCHANGED <<program, options, exitCode, validation, scopes, diagnostics,
                   current_element_path, output, stack, run, fresh, history, previous>>
    /\ UNCHANGED <<lexer, lexed, document, firstParse>>
    /\ UNCHANGED <<transportVars, libraries>>

ValidateNext ==
    \/ ValidateCalled
    \/ ParserNew
    \/ ParseImport
    \/ ParseTemplateDeclaration
    \/ ParseElementDeclaration
    \/ ParseLanguageDeclaration
    \/ UnexpectedToken
    \/ ParseReturn
    \/ ValidateReturns
    \/ CmdRun
    \/ EnterElement
    \/ EnterElementAtLimit
    \/ EvaluateScope
    \/ SkipCheckAtLimit
    \/ SkipCheckFiltered
    \/ RunCheck
    \/ CmdRunExit
    \/ RunAgain
    \/ RunOnNewInterpreter

ValidateSpec == ValidateInit /\ [][ValidateNext]_vars

\* a step of a call of validate
ValidateStep == pc = "validating" \/ pc' = "validating"

\* the calls of validate that have returned
Validated == SelectSeq(validated, LAMBDA v : v.done)

\* the parse diagnostics (E0xx) stand before the semantic ones (W001)
ParseThenSemantic(diags) ==
    \A i \in 1..Len(diags) : \A j \in (i + 1)..Len(diags) :
        diags[i] = "W001" => diags[j] = "W001"

\* C22: validate leaves the scope mapping, the current element path, the
\* accumulated diagnostics and the library registry as they were; every
\* call with the same file, before or after a run, returns the same program
\* and the same diagnostics in the same order, and in them the parse
\* diagnostics stand before the semantic ones.
ValidateIsPure ==
    /\ [][ValidateStep =>
            UNCHANGED <<scopes, current_element_path, diagnostics, libraries>>]_vars
    /\ [](\A i, j \in 1..Len(Validated) :
            /\ Validated[i].program = Validated[j].program
            /\ Validated[i].diagnostics = Validated[j].diagnostics)
    /\ [](\A i \in 1..Len(Validated) : ParseThenSemantic(Validated[i].diagnostics))

\* validate was called before the first run and after it, on an Interpreter
\* that holds scopes and diagnostics, for a file with a syntax error after
\* an import of an unknown library
ValidateIsPureWitness ==
    /\ Len(Validated) = 2
    /\ Validated[1].run = 0
    /\ Validated[2].run = 1
    /\ pc = "returned"
    /\ scopes # <<>>
    /\ diagnostics # <<>>
    /\ Len(Validated[2].diagnostics) >= 2
    /\ Head(Validated[2].diagnostics) = "E001"
    /\ Last(Validated[2].diagnostics) = "W001"
    /\ Len(Validated[2].program.v.imports) = 1

(***************************************************************************)
(* Qualified paths with keywords of the soft set as segments.              *)
(***************************************************************************)
\* the texts of the keywords Parser::parse_identifier takes for identifiers
SoftKeywordTexts ==
    {w \in (DOMAIN KeywordKind) \cup (DOMAIN LaterKeywordKind) : TokenKindOf(w) \in SoftKeywords}

\* the two-segment paths with a soft keyword as first or as second segment
KeywordPaths ==
    {<<w, "p">> : w \in SoftKeywordTexts} \cup {<<"p", w>> : w \in SoftKeywordTexts}

\* the places where a qualified path is written
PathContexts == {"binds", "binding", "uses", "pattern"}

\* the line that holds the path `segments` in the place `context`
PathLine(context, segments) ==
    [m |-> context, path |-> segments,
     lex |-> LET dotted == <<segments[1], ".", segments[2]>> IN
             IF context = "binds" THEN <<"scope", "x", "binds">> \o dotted \o <<"=", "f">>
             ELSE IF context = "binding" THEN dotted \o <<"=", "f">>
             ELSE IF context = "uses" THEN <<"r", "uses">> \o dotted
             ELSE <<"allows", "connection", "to">> \o dotted]

\* a declaration with the line in its body: a connection pattern stands in
\* a template, the other paths in an element
PathDeclaration(context, segments) ==
    Block(IF context = "pattern" THEN "template" ELSE "element", "a", "indent",
          <<PathLine(context, segments)>>)

PathDocuments ==
    {<<PathDeclaration(context, segments)>> :
        context \in PathContexts, segments \in KeywordPaths \cup {<<"p", "q">>}}
    \cup {<<ImportLine, JunkLine, LanguageLine, PathDeclaration(context, <<"p", "q">>)>> :
            context \in PathContexts}

PathInit ==
    /\ NoRun
    /\ document \in PathDocuments
    /\ source = Render(document, 0)
    /\ lexer = [phase |-> "idle"]
    /\ lexed = <<>>
    /\ parser = [phase |-> "idle"]
    /\ parsed = <<>>
    /\ firstParse = [valid |-> FALSE]
    /\ TransportIdle

PathSpec == PathInit /\ [][ParserNext]_vars

\* the line of the document that holds the path
WrittenPath == Last(document).body[1]

\* the qualified paths of the Program: after `binds`, of the template
\* bindings, the targets of `uses`, and the connection patterns
ParsedPaths ==
    UNION {{e.scopes[i].binds.v : i \in {j \in 1..Len(e.scopes) : e.scopes[j].binds.some}}
           \cup {e.template_bindings[i].path : i \in 1..Len(e.template_bindings)}
           \cup {e.uses[i].target : i \in 1..Len(e.uses)} : e \in Range(parsed.elements)}
    \cup UNION {{t.component_requirements[i].component.decl.path :
                    i \in {j \in 1..Len(t.component_requirements) :
                            t.component_requirements[j].component.spec = "Connection"}} :
                t \in Range(parsed.templates)}

\* the declaration was parsed, with the path as it is written
PathAccepted == WrittenPath.path \in ParsedPaths

\* C23: wherever a qualified path is parsed (after `binds`, in a template
\* binding, as the target of `uses`, in a connection pattern), a segment that
\* is a keyword of the soft set is accepted as an identifier whose name is
\* the keyword's text.
SoftKeywordsInEveryPath == ParseDone => PathAccepted

\* the same for the path after `binds` and the target of `uses`, for the
\* segments after the first of a template binding, and for the first
\* segment of a connection pattern
SoftKeywordsWhereParseIdentifierIsCalled ==
    (/\ ParseDone
     /\ \/ WrittenPath.m \in {"binds", "uses"}
        \/ WrittenPath.m = "binding" /\ WrittenPath.path[1] = "p"
        \/ WrittenPath.m = "pattern" /\ WrittenPath.path[2] \in {"p", "q"})
    => PathAccepted

(***************************************************************************)
(* Parser::parse on well-formed and malformed files: the files of the      *)
(* documents, every prefix of them and every one with a lexeme left out.   *)
(***************************************************************************)
\* the documents the malformed files are made from
StreamDocuments ==
    {<<ImportLine, first>> \o following :
        first \in {Block("element", "a", "brace", body) : body \in ElementBodies("indent")}
                \cup {Block("template", "t", "indent", body) : body \in TemplateBodies("brace")},
        following \in {<<LanguageLine>>, <<JunkLine>>}}

\* the text, the text cut after any lexeme, and the text without one lexeme
Damaged(text) ==
    {SubSeq(text, 1, n) : n \in 0..Len(text)}
    \cup {SubSeq(text, 1, i - 1) \o SubSeq(text, i + 1, Len(text)) : i \in 1..Len(text)}

StreamSources == UNION {Damaged(Render(doc, 0)) : doc \in StreamDocuments}

StreamInit ==
    /\ NoRun
    /\ document = <<>>
    /\ source \in StreamSources \ {<<>>}
    /\ lexer = [phase |-> "idle"]
    /\ lexed = <<>>
    /\ parser = [phase |-> "idle"]
    /\ parsed = <<>>
    /\ firstParse = [valid |-> FALSE]
    /\ TransportIdle

StreamNext ==
    \/ ParserNew
    \/ ParseImport
    \/ ParseTemplateDeclaration
    \/ ParseElementDeclaration
    \/ ParseLanguageDeclaration
    \/ UnexpectedToken
    \/ ParseReturn

StreamSpec == StreamInit /\ [][StreamNext]_vars

\* Parser::parse is in one of its two loops
InLoops == parser.phase \in {"imports", "declarations"}

\* a turn of a loop of parse moves the position forward, and only the
\* return leaves the loops
TurnAdvances ==
    InLoops =>
        \/ parser'.phase = "done" /\ parser'.pos >= parser.pos
        \/ parser'.phase \in {"imports", "declarations"} /\ parser'.pos > parser.pos

\* C24: on every file, well-formed or not, every turn of the loops of parse
\* moves the token position forward or leaves the loop, the position stays
\* inside the token vector, whose last token is the EOF, and parse returns at
\* the EOF with a Program and the diagnostics.
ParseTerminatesAtEof ==
    /\ [][TurnAdvances]_vars
    /\ [](parser.phase # "idle" =>
            /\ parser.pos \in 1..Len(parser.tokens)
            /\ Last(parser.tokens).kind = "Eof"
            /\ DOMAIN parsed = DOMAIN EmptyProgram)
    /\ [](ParseDone => /\ parser.pos = Len(parser.tokens)
                       /\ is_at_end(parser.tokens, parser.pos))

\* parse has returned from a file that was cut inside a block, after it
\* reported errors and recovered
ParseTerminatesAtEofWitness ==
    /\ ParseDone
    /\ source \notin {Render(doc, 0) : doc \in StreamDocuments}
    /\ Len(parser.diagnostics) >= 2
    /\ Len(parsed.imports) = 1
    /\ Len(parsed.elements) = 1

(***************************************************************************)
(* Drop for ExternalLibrary.                                               *)
(***************************************************************************)
\* the drop of the library has returned
Dropped == call.phase = "dropped"

\* what a drop does to the child it holds, in order
DropSequences ==
    {<<"close_stdin", "try_wait">>,
     <<"close_stdin", "try_wait", "kill", "wait">>,
     <<"close_stdin", "try_wait", "sleep", "try_wait">>,
     <<"close_stdin", "try_wait", "sleep", "try_wait", "kill", "wait">>}

\* C25: when an ExternalLibrary that spawned a child is dropped, the child's
\* stdin is closed first, and when drop returns the child has terminated:
\* it had exited at the first try_wait, or it exited within the brief wait,
\* or it was killed and waited for; a library that never spawned a child
\* performs no process action when dropped.
DropEndsChild ==
    /\ [](call.phase = "drop_sleeps" =>
            Head(call.actions) = "close_stdin" /\ ~library.process.some)
    /\ []((Dropped /\ subprocess.spawned > 0) =>
            /\ ~subprocess.running
            /\ ~library.process.some
            /\ call.actions \in DropSequences)
    /\ []((Dropped /\ subprocess.spawned = 0) => call.actions = <<>>)
    /\ [][(Dropped' /\ subprocess.spawned = 0) => UNCHANGED <<subprocess, library>>]_vars
    /\ [][(Dropped' /\ subprocess.running /\ ~subprocess'.running) =>
            SubSeq(call'.actions, Len(call'.actions) - 1, Len(call'.actions))
                \in {<<"kill", "wait">>, <<"sleep", "try_wait">>}]_vars

\* the library answered a request, and at its drop the child was still
\* running after the wait and was killed
DropEndsChildWitness ==
    /\ Dropped
    /\ subprocess.spawned = 1
    /\ Len(Writes) >= 1
    /\ call.actions = <<"close_stdin", "try_wait", "sleep", "try_wait", "kill", "wait">>

(***************************************************************************)
(* The filter and the scopes.                                              *)
(***************************************************************************)
\* the element whose activation is on top has a scope left to evaluate
ScopePending == pc = "running" /\ Top.si <= Len(ScopesAt(Top.pos))

\* the step evaluates the pending scope of the element on top: the
\* evaluation is recorded, a value is stored under 'path.name' exactly when
\* it succeeded, a diagnostic is pushed exactly when it failed, and the
\* counters and results are left alone
PendingScopeEvaluated ==
    LET f == Top
        key == path_str(f.pos) \o Dot \o ScopesAt(f.pos)[f.si].name
        e == history'[Len(history')]
    IN  /\ Len(history') = Len(history) + 1
        /\ e.ev = "scope" /\ e.pos = f.pos /\ e.i = f.si /\ e.key = key
        /\ IF e.ok
           THEN key \in DOMAIN scopes' /\ diagnostics' = diagnostics
           ELSE scopes' = scopes /\ Len(diagnostics') = Len(diagnostics) + 1
        /\ output' = output

\* the checks that were executed belong to elements whose path matches
ChecksOnlyWhereFilterMatches ==
    \A k \in 1..Len(history) :
        history[k].ev = "check" =>
            MatchesFilter(path_str(history[k].pos), options.filter)

\* C26: every scope of a visited element is evaluated, and stored when the
\* evaluation succeeds, whether or not the path of the element matches the
\* filter; only the checks of an element whose path does not match are
\* skipped.
ScopesStoredWhateverFilter ==
    /\ []ChecksOnlyWhereFilterMatches
    /\ [][ScopePending => PendingScopeEvaluated]_vars

\* a run filtered on "c": the scope m of element a, whose path does not
\* match, is stored, none of the checks of a is executed, and the check of c
\* on its scope n, defined as m, passes
ScopesStoredWhateverFilterWitness ==
    /\ Returned
    /\ fresh
    /\ options.filter = Some(NameC)
    /\ ~options.limit.some
    /\ Len(ChecksAt(<<1>>)) > 0
    /\ (NameA \o Dot \o NameM) \in DOMAIN scopes
    /\ (NameC \o Dot \o NameM) \notin DOMAIN scopes
    /\ (NameC \o Dot \o NameN) \in DOMAIN scopes
    /\ \A i \in 1..Len(output.results) : output.results[i].element_path = NameC
    /\ \E i \in 1..Len(output.results) : output.results[i].result.r = "Pass"

(***************************************************************************)
(* The counters of a CheckOutput.                                          *)
(***************************************************************************)
CountersAgree(out) ==
    /\ out.total = out.passed + out.failed + out.errors
    /\ out.total = Len(out.results)

\* the step executed a check: one more in total, in exactly one of passed,
\* failed and errors, and one more result, the one counted
OneCheckCounted ==
    /\ output'.total = output.total + 1
    /\ Len(output'.results) = Len(output.results) + 1
    /\ SubSeq(output'.results, 1, Len(output.results)) = output.results
    /\ output'.skipped = output.skipped
    /\ LET r == output'.results[Len(output'.results)].result.r IN
       /\ output'.passed = output.passed + (IF r = "Pass" THEN 1 ELSE 0)
       /\ output'.failed = output.failed + (IF r = "Fail" THEN 1 ELSE 0)
       /\ output'.errors = output.errors + (IF r = "Error" THEN 1 ELSE 0)

\* the step skipped a check: one more skipped, nothing else
OneCheckSkipped == output' = [output EXCEPT !.skipped = @ + 1]

\* a step of the check loop of an invocation: the newest event says whether
\* the check was executed or skipped
CheckLoopStep(kind) ==
    /\ pc = "running"
    /\ run' = run
    /\ Len(history') = Len(history) + 1
    /\ history'[Len(history')].ev = kind

FailedScopes ==
    {k \in 1..Len(history) : history[k].ev = "scope" /\ ~history[k].ok}

\* the step is the evaluation of a scope and the evaluation failed
ScopeFails ==
    /\ ScopePending
    /\ Len(history') = Len(history) + 1
    /\ ~history'[Len(history')].ok

\* the failure stores nothing and records one diagnostic
NothingStoredOneDiagnostic ==
    /\ scopes' = scopes
    /\ Len(diagnostics') = Len(diagnostics) + 1
    /\ SubSeq(diagnostics', 1, Len(diagnostics)) = diagnostics

\* every scope and every check of the element at pos has been processed
AllProcessed(pos) ==
    /\ \A i \in 1..Len(ScopesAt(pos)) :
          \E k \in 1..Len(history) :
              history[k].ev = "scope" /\ history[k].pos = pos /\ history[k].i = i
    /\ \A i \in 1..Len(ChecksAt(pos)) :
          \E k \in 1..Len(history) :
              /\ history[k].ev \in {"check", "skip"}
              /\ history[k].pos = pos /\ history[k].i = i

\* after a failure the rest of the element is processed
FailuresAreSurvived ==
    Returned => \A k \in FailedScopes : AllProcessed(history[k].pos)

\* the check executed last is lib.fn(S, ...) where S is the name of a scope
\* of the same element whose evaluation failed, and 'P.S' is not stored
LastCheckOnFailedScope ==
    /\ LastIsCheck
    /\ IsLibraryCall(CheckExprOf(LastEvent))
    /\ Len(CheckExprOf(LastEvent).arguments) >= 1
    /\ CheckExprOf(LastEvent).arguments[1].k = "Identifier"
    /\ \E k \in FailedScopes :
          /\ history[k].pos = LastEvent.pos
          /\ ScopesAt(history[k].pos)[history[k].i].name =
                CheckExprOf(LastEvent).arguments[1].name
          /\ history[k].key \notin DOMAIN scopes

\* the stored scopes named like the first argument of the check executed last
NamesakesOfLast == KeysNamed(CheckExprOf(LastEvent).arguments[1].name)

\* the check ended in E200 and no library was called
LastIsUndefined == LastEvent.code = "E200" /\ LastEvent.inv = <<>>

\* whatever reached a library as first argument is the value of a namesake
LastTookNamesake ==
    /\ LastEvent.code # "E200"
    /\ \A c \in 1..Len(LastEvent.inv) :
          \E key \in NamesakesOfLast : LastEvent.inv[c].args[1] = scopes[key]
    /\ CheckExprOf(LastEvent).function.object.name \in libraries
          => LastEvent.inv # <<>>

\* C28 as stated: a failed evaluation of scope S of element P stores nothing
\* under 'P.S' and records one diagnostic, the rest of P is processed, and
\* every check of P that references S ends in Error E200 without any library
\* being called with a value of another element's scope.
FailedScopeIsUndefined ==
    /\ [][ScopeFails => NothingStoredOneDiagnostic]_vars
    /\ []FailuresAreSurvived
    /\ [](LastCheckOnFailedScope => LastIsUndefined)

\* C28 as amended: a failed evaluation of scope S of element P stores
\* nothing and records one diagnostic, and the rest of P is processed; a
\* check of P that takes S, with 'P.S' not stored, ends in Error E200 only
\* when no stored scope of another element is named S, and otherwise the
\* identifier resolves to such a scope and the library is called with its
\* value.
FailedScopeFallsBackOnNamesake ==
    /\ [][ScopeFails => NothingStoredOneDiagnostic]_vars
    /\ []FailuresAreSurvived
    /\ [](LastCheckOnFailedScope =>
            IF NamesakesOfLast = {} THEN LastIsUndefined ELSE LastTookNamesake)

\* scope m of element c failed, scope m of element a is stored, and the check
\* files.exists(m, 'main.py') of c was given the value of a.m and passed
FailedScopeFallsBackOnNamesakeWitness ==
    /\ LastCheckOnFailedScope
    /\ LastEvent.pos = <<2>>
    /\ (NameC \o Dot \o NameM) \notin DOMAIN scopes
    /\ (NameA \o Dot \o NameM) \in DOMAIN scopes
    /\ LastEvent.inv # <<>>
    /\ LastEvent.inv[1].args[1] = scopes[NameA \o Dot \o NameM]
    /\ output.results[Len(output.results)].result.r = "Pass"

(***************************************************************************)
(* When a scope becomes visible.                                           *)
(***************************************************************************)
\* what one element may declare: a scope defined by a scope declared after
\* it, a scope m of its own, a scope defined by a scope m of another element
VisibilityBodies == {
    Body(<<>>, <<>>),
    Body(<<ScopeDeclaration(NameN, Identifier(NameM)),
           ScopeDeclaration(NameM, SrcSel)>>,
         <<ExistsIn(Identifier(NameN)), ExistsIn(Identifier(NameM))>>),
    Body(<<ScopeDeclaration(NameM, DocSel)>>, <<ExistsIn(Identifier(NameM))>>),
    Body(<<ScopeDeclaration(NameN, Identifier(NameM))>>,
         <<ExistsIn(Identifier(NameN))>>)
}

\* element a { ... element b { ... } }  element c { ... }
VisibilityPrograms ==
    { <<Element(NameA, ba, <<Element(NameB, bb, <<>>)>>), Element(NameC, bc, <<>>)>>
      : ba \in VisibilityBodies, bb \in VisibilityBodies, bc \in VisibilityBodies }

VisibilityInit ==
    /\ program \in VisibilityPrograms
    /\ options \in RunOptionsSet
    /\ pc = "start"
    /\ exitCode = -1
    /\ validation = [done |-> FALSE]
    /\ scopes = <<>>
    /\ diagnostics = <<>>
    /\ current_element_path = <<>>
    /\ output = EmptyOutput
    /\ stack = <<>>
    /\ run = 0
    /\ fresh = TRUE
    /\ history = <<>>
    /\ previous = [valid |-> FALSE]
    /\ NoValidation
    /\ FrontEndIdle
    /\ TransportIdle

VisibilitySpec == VisibilityInit /\ [][Next]_vars

\* the declarations (element, index in its scope list) of a scope named X
\* that are in place before event e: earlier in the scope list of the
\* element of e when e evaluates a scope, anywhere in that list when e
\* executes a check, and in any element that precedes it in pre-order
DeclaredBefore(X, e) ==
    {d \in {<<pos, i>> : pos \in Positions, i \in 1..2} :
        /\ d[2] <= Len(ScopesAt(d[1]))
        /\ ScopesAt(d[1])[d[2]].name = X
        /\ IF d[1] = e.pos THEN e.ev = "check" \/ d[2] < e.i
           ELSE PreOrderBefore(d[1], e.pos)}

\* the declarations of a scope named X that are not in place before e: later
\* in the same list, in a descendant, in an element that follows
DeclaredNotBefore(X, e) ==
    {d \in {<<pos, i>> : pos \in Positions, i \in 1..2} :
        /\ d[2] <= Len(ScopesAt(d[1]))
        /\ ScopesAt(d[1])[d[2]].name = X
        /\ d \notin DeclaredBefore(X, e)}

\* the values stored for the declarations ds
StoredFor(ds) ==
    {scopes[path_str(d[1]) \o Dot \o ScopesAt(d[1])[d[2]].name] :
        d \in {x \in ds : (path_str(x[1]) \o Dot \o ScopesAt(x[1])[x[2]].name)
                              \in DOMAIN scopes}}

\* event e, which evaluated identifier X with the given outcome, saw only
\* what was evaluated before it
SawOnlyEarlier(X, e, found, val, code) ==
    /\ found => val \in StoredFor(DeclaredBefore(X, e))
    /\ DeclaredBefore(X, e) = {} => ~found /\ code = "E200"

\* C29: on a fresh Interpreter an identifier in a scope expression or a
\* check of element P resolves only to a scope declared earlier in the scope
\* list of P (any scope of P, for a check) or in an element that precedes P
\* in pre-order, and evaluated successfully; when the scopes of that name
\* are all declared later in the same list, in a descendant of P or in an
\* element that follows P, the evaluation fails with E200.
VisibleOnceEvaluated ==
    fresh =>
        /\ LastCheckTakesIdentifier =>
              LET invoked == CheckInvocations(LastEvent.inv)
                  found == invoked # <<>>
              IN  SawOnlyEarlier(CheckExprOf(LastEvent).arguments[1].name,
                                 LastEvent, found,
                                 IF found THEN invoked[1].args[1] ELSE <<>>,
                                 LastEvent.code)
        /\ LastScopeIsIdentifier =>
              SawOnlyEarlier(ScopesAt(LastEvent.pos)[LastEvent.i].expression.name,
                             LastEvent, LastEvent.ok,
                             IF LastEvent.ok THEN scopes[LastEvent.key] ELSE <<>>,
                             IF LastEvent.ok THEN ""
                             ELSE diagnostics[Len(diagnostics)])

\* on a fresh Interpreter, scope n of element a, defined as m, has just
\* failed with E200 while m is declared after it in a and again in the
\* descendant b and in the following element c
VisibleOnceEvaluatedWitness ==
    /\ fresh
    /\ LastScopeIsIdentifier
    /\ LastEvent.pos = <<1>> /\ LastEvent.i = 1
    /\ ~LastEvent.ok
    /\ diagnostics[Len(diagnostics)] = "E200"
    /\ \E d \in DeclaredNotBefore(NameM, LastEvent) : d[1] = <<1>>
    /\ \E d \in DeclaredNotBefore(NameM, LastEvent) : d[1] = <<1, 1>>
    /\ \E d \in DeclaredNotBefore(NameM, LastEvent) : d[1] = <<2>>

\* on a fresh Interpreter, scope n of element c resolved to the scope m of
\* the preceding element a, and the check of a on its own scope m, declared
\* after the scope that failed, passed
VisibleOnceEvaluatedLaterWitness ==
    /\ fresh /\ Returned
    /\ (NameA \o Dot \o NameN) \notin DOMAIN scopes
    /\ (NameA \o Dot \o NameM) \in DOMAIN scopes
    /\ (NameC \o Dot \o NameN) \in DOMAIN scopes
    /\ scopes[NameC \o Dot \o NameN] = scopes[NameA \o Dot \o NameM]

(***************************************************************************)
(* The indent stack.                                                       *)
(***************************************************************************)
Lexing == lexer.phase \in {"lexing", "done"}

\* non-empty, 0 at the bottom, strictly increasing towards the top
StackWellFormed ==
    Lexing =>
        /\ lexer.indent_stack # <<>>
        /\ lexer.indent_stack[1] = 0
        /\ \A i, j \in 1..Len(lexer.indent_stack) :
              i < j => lexer.indent_stack[i] < lexer.indent_stack[j]

\* the tokens of the kind made so far: returned, or waiting to be returned
Made(kind) ==
    CountKind(kind, Len(lexed))
        + Cardinality({i \in 1..Len(lexer.pending_tokens) :
                          lexer.pending_tokens[i].kind = kind})

\* a token that waits is the next one returned, and the stream does not end
\* while one is waiting
WaitingTokensAreReturned ==
    /\ Lexing /\ StreamEnded => lexer.pending_tokens = <<>>
    /\ Lexing => \A i \in 1..Len(lexer.pending_tokens) :
                    lexer.pending_tokens[i].kind \in {"Indent", "Dedent"}

\* a call of next_token
Called == lexer.phase = "lexing" /\ lexed' # lexed

\* a call makes one INDENT for each level it pushes and one DEDENT for each
\* level it pops, and no other; it either pushes one level or pops some
TokenPerLevel ==
    Called =>
        LET before == Len(lexer.indent_stack)
            after == Len(lexer'.indent_stack)
        IN  /\ Made("Indent")' - Made("Indent") =
                  (IF after > before THEN after - before ELSE 0)
            /\ Made("Dedent")' - Made("Dedent") =
                  (IF after < before THEN before - after ELSE 0)
            /\ after > before =>
                  /\ after = before + 1
                  /\ Front(lexer'.indent_stack) = lexer.indent_stack
            /\ after <= before =>
                  lexer'.indent_stack = SubSeq(lexer.indent_stack, 1, after)
            /\ lexer.pending_tokens # <<>> =>
                  /\ Last(lexed') = Last(lexer.pending_tokens)
                  /\ after = before

\* the call of next_token that processes the indentation of a line
LineStarts ==
    /\ Called
    /\ lexer.at_line_start /\ lexer.pending_tokens = <<>> /\ ~lexer.finished

\* the line about to be processed
LineAhead == LineFrom(source, lexer.line_start_offset, 0)

\* the highest level of the stack that is not above the indentation n
LevelAtOrBelow(n) ==
    LET levels == {lexer.indent_stack[i] : i \in 1..Len(lexer.indent_stack)}
        below == {l \in levels : l <= n}
    IN  CHOOSE l \in below : \A m \in below : m <= l

\* after a line of code the top of the stack is the indentation of the line
TopIsIndentation ==
    LineStarts /\ LineAhead.kind = "code" =>
        Last(lexer'.indent_stack) = LineAhead.indent

\* after a line of code the top of the stack is the indentation of the line
\* when that is above the old top, and else the highest level of the stack
\* that is not above the indentation
TopIsLevelReached ==
    LineStarts /\ LineAhead.kind = "code" =>
        Last(lexer'.indent_stack) =
            IF LineAhead.indent > Last(lexer.indent_stack) THEN LineAhead.indent
            ELSE LevelAtOrBelow(LineAhead.indent)

\* C30 as stated: the indent stack is never empty, has 0 at the bottom and
\* increases strictly; an INDENT is emitted exactly when a level is pushed
\* and a DEDENT exactly when one is popped; after a line of code the top of
\* the stack equals the indentation of the line.
IndentStackTracksLines ==
    /\ [](StackWellFormed /\ WaitingTokensAreReturned)
    /\ [][TokenPerLevel]_vars
    /\ [][TopIsIndentation]_vars

\* C30 as amended: the indent stack is never empty, has 0 at the bottom and
\* increases strictly; an INDENT is emitted exactly when a level is pushed
\* and a DEDENT exactly when one is popped; after a line of code the top of
\* the stack equals the indentation of the line when the line is indented
\* above the old top or at a level of the stack, and is otherwise the
\* highest level of the stack below the indentation of the line.
IndentStackTracksLevels ==
    /\ [](StackWellFormed /\ WaitingTokensAreReturned)
    /\ [][TokenPerLevel]_vars
    /\ [][TopIsLevelReached]_vars

\* lines of code indented by 2, 1 and 1: the second pops the level 2 and
\* leaves 0 on top, so that the third, indented like the second, pushes 1
IndentStackTracksLevelsWitness ==
    /\ lexer.phase = "done"
    /\ source = Spaces(2) \o <<"x", "\n">> \o Spaces(1) \o <<"x", "\n">>
                    \o Spaces(1) \o <<"x">>
    /\ [i \in 1..Len(lexed) |-> lexed[i].kind] =
          <<"Indent", "Identifier", "Newline", "Dedent", "Identifier", "Newline",
            "Indent", "Identifier", "Dedent", "Eof">>

====
